---- MODULE Spec2Model ----
(***************************************************************************)
(* Update lifecycle engine of RNHotUpdateDemo: the update coordinator      *)
(* (src/src/UpdateManager.ts), the application that drives it              *)
(* (src/App.tsx) and the native boot guard with its pre-boot store         *)
(* (src/unnamed/part_000: RNUpdateManager.swift, RNUpdateManagerModule     *)
(* .java).                                                                 *)
(*                                                                         *)
(* Time is counted in milliseconds and advances in ticks of twice          *)
(* STARTUP_CONFIRM_MS.  A bundle file is identified by its path            *)
(* bundles/<label>/index.bundle; its content is one of a few byte strings. *)
(***************************************************************************)
EXTENDS Integers, Sequences, FiniteSets, TLC

VARIABLES
  platform,     \* "ios" | "android": which native module is linked in
  now,          \* wall clock, ms
  files,        \* file system: bundle path -> content | Missing
  prefs,        \* pre-boot store (UserDefaults / SharedPreferences)
  storage,      \* post-boot store (AsyncStorage)
  proc,         \* "dead" | "guard" (boot guard mid-evaluation) | "js"
  guardFail,    \* the boot guard's local failCount while proc = "guard"
  loaded,       \* what this JS context runs: [kind, label], and (history) whether the
                \* post-boot store held this label's pending record when it started
  runBytes,     \* content of the bundle this JS context runs
  isg,          \* initStartupGuard() of this JS context: [pc, clear]
  nar,          \* the notifyAppReady() timer of this JS context: [pc, label]
  upd,          \* update() of this JS context: [pc, info, route, patchFetched, fromLabel]
  pendingLoads, \* history: boot-guard loads of the pending bundle since the last install
  rolledBack,   \* history: the boot guard rolled back and nothing was installed since
  committed,    \* history: label whose install wrote both records since the last boot
  bootSeen      \* history: the pre-boot record as the running guard evaluation found it

vars == <<platform, now, files, prefs, storage, proc, guardFail, loaded, runBytes,
          isg, nar, upd, pendingLoads, rolledBack, committed, bootSeen>>

-----------------------------------------------------------------------------
(* Bounds of the model *)

MaxTicks == 3
MaxFailCount == 2
MaxSize == 10
MaxLoads == 2

(* Program constants *)

STARTUP_CONFIRM_MS == 10000

\* One tick of the clock: the age at which initStartupGuard still keeps a record.
TickMs == STARTUP_CONFIRM_MS * 2

-----------------------------------------------------------------------------
(* Values *)

Null == "null"
Undefined == "undefined"

\* No file at a path / no path stored under a key.
Missing == <<>>

NoPath == <<>>

Labels == {"v1", "v2"}

\* bundles/<label>/index.bundle
bundlePath(label) == <<"bundles", label, "index.bundle">>

BundlePaths == {bundlePath(l) : l \in Labels}

\* The label whose bundle directory holds path p.
labelOfPath(p) == p[2]

\* Contents a bundle file can have: the published bytes of each release,
\* bytes that are no release at all (truncated or tampered download, wrong
\* patch result), and the bundle embedded in the binary.
releaseBytes(label) == <<"bytes", label>>

CorruptBytes == <<"bytes", "corrupt">>

BaselineBytes == <<"bytes", "baseline">>

FileBytes == {releaseBytes(l) : l \in Labels} \cup {CorruptBytes}

\* What a transfer for a release of label l can leave in its bundle file.
transferBytes(label) == {releaseBytes(label), CorruptBytes}

\* CryptoJS.SHA256(...).toString() of a file's bytes: collision-free.
calculateSHA256(bytes) == <<"sha256", bytes>>

\* verifyBundle: digest of the file at path equals the expected hash.
verifyBundle(fs, path, expectedHash) ==
  /\ fs[path] # Missing
  /\ calculateSHA256(fs[path]) = expectedHash

\* Bundles that crash at every start before they can confirm: release v2 is
\* the bad update, and bytes that are no release do not run either.
CrashyBytes == {releaseBytes("v2"), CorruptBytes}

Crashy(bytes) == bytes \in CrashyBytes

-----------------------------------------------------------------------------
(* Pre-boot store: UserDefaults (iOS) / SharedPreferences (Android).  A key
   that is absent reads as NoPath / Null / 0, as string(forKey:), double(forKey:),
   integer(forKey:), getString(k, null), getLong(k, 0), getInt(k, 0) do. *)

EmptyPrefs ==
  [pendingPath |-> NoPath, pendingLabel |-> Null, pendingAttemptAt |-> 0,
   pendingFailCount |-> 0, activeLabel |-> Null]

\* Mutant of clearPending: the pending path key is left behind.
clearPending_KeepsPath(p) ==
  [p EXCEPT !.pendingLabel = Null, !.pendingAttemptAt = 0, !.pendingFailCount = 0]

\* clearPending: removes the four pending keys.
clearPending(p) ==
  [p EXCEPT !.pendingPath = NoPath, !.pendingLabel = Null,
            !.pendingAttemptAt = 0, !.pendingFailCount = 0]

\* Mutant of setPendingUpdate: the attempt stamp and the fail count of a
\* record already in the store are kept.
setPendingUpdate_KeepsAttempt(p, label, path) ==
  [p EXCEPT !.pendingPath = path, !.pendingLabel = label]

\* Mutant of setPendingUpdate: a record already in the store is kept.
setPendingUpdate_KeepsOlder(p, label, path) ==
  IF p.pendingPath # NoPath THEN p
  ELSE [p EXCEPT !.pendingPath = path, !.pendingLabel = label,
                 !.pendingAttemptAt = 0, !.pendingFailCount = 0]

\* setPendingUpdate(label, bundlePath)
setPendingUpdate(p, label, path) ==
  [p EXCEPT !.pendingPath = path, !.pendingLabel = label,
            !.pendingAttemptAt = 0, !.pendingFailCount = 0]

\* Mutant of markUpdateVerified: the pending keys are left in place.
markUpdateVerified_KeepsPending(p, label) == [p EXCEPT !.activeLabel = label]

\* markUpdateVerified(label)
markUpdateVerified(p, label) == clearPending([p EXCEPT !.activeLabel = label])

\* The guard's entry condition: a pending path is stored and its file exists.
pendingApplies(p, fs) ==
  /\ p.pendingPath # NoPath
  /\ fs[p.pendingPath] # Missing

\* The guard's first write: on a record that was already attempted, the fail
\* count is incremented and persisted.
guardCountAttempt(p) ==
  IF p.pendingAttemptAt > 0
    THEN [p EXCEPT !.pendingFailCount = p.pendingFailCount + 1]
    ELSE p

\* Mutant of guardRollsBack: one more retry is allowed.
guardRollsBack_TwoRetries(failCount) == failCount >= 2

\* The guard's decision on its local failCount: TRUE = roll back.
guardRollsBack(failCount) == failCount >= 1

\* Mutant of getActiveBundlePath: the file is not looked for.
getActiveBundlePath_NoFileCheck(p, fs) ==
  IF p.activeLabel # Null THEN bundlePath(p.activeLabel) ELSE NoPath

\* getActiveBundlePath: the active label's bundle if the file exists.
getActiveBundlePath(p, fs) ==
  IF p.activeLabel # Null /\ fs[bundlePath(p.activeLabel)] # Missing
    THEN bundlePath(p.activeLabel)
    ELSE NoPath

\* What the guard loads when it does not load the pending bundle: the active
\* bundle, else the embedded baseline (main.jsbundle / ensureBaseBundle).
activeOrBaseline(p, fs) ==
  IF getActiveBundlePath(p, fs) # NoPath
    THEN [kind |-> "active", label |-> p.activeLabel, recorded |-> FALSE]
    ELSE [kind |-> "baseline", label |-> Null, recorded |-> FALSE]

NotLoaded == [kind |-> "none", label |-> Null, recorded |-> FALSE]

\* A JS context on the bundle of label l, loaded as the pending bundle by the
\* guard (kind "pending") or by reloadBundle (kind "reload").
onBundle(kind, l, st) ==
  [kind |-> kind, label |-> l,
   recorded |-> st.pendingUpdate # <<>> /\ st.pendingUpdate[2].label = l]

\* Content of the bundle a selection runs.
bytesOf(sel, fs) ==
  IF sel.kind = "baseline" THEN BaselineBytes ELSE fs[bundlePath(sel.label)]

-----------------------------------------------------------------------------
(* Post-boot store: AsyncStorage, keys ACTIVE_KEY and PENDING_KEY.  The
   pending item is JSON text; an absent item reads as null. *)

NoItem == <<>>

EmptyStorage == [activeLabel |-> Null, pendingUpdate |-> NoItem]

\* JSON.stringify of the pending record / JSON.parse of the stored text.
stringify(rec) == <<"json", rec>>

parse(raw) == raw[2]

\* Mutant of setPending: a record already in the store is kept.
setPending_KeepsOlder(st, label, path, fromLabel, t) ==
  IF st.pendingUpdate # <<>> THEN st
  ELSE [st EXCEPT !.pendingUpdate =
          <<"json", [label |-> label, bundlePath |-> path, fromLabel |-> fromLabel,
                     appliedAt |-> t, verified |-> FALSE, failCount |-> 0]>>]

\* setPending: the record written by the install step.
setPending(st, label, path, fromLabel, t) ==
  [st EXCEPT !.pendingUpdate =
     stringify([label |-> label, bundlePath |-> path, fromLabel |-> fromLabel,
                appliedAt |-> t, verified |-> FALSE, failCount |-> 0])]

\* clearPending (UpdateManager.ts): removeItem(PENDING_KEY)
removePending(st) == [st EXCEPT !.pendingUpdate = NoItem]

\* setCurrentLabel
setCurrentLabel(st, label) == [st EXCEPT !.activeLabel = label]

-----------------------------------------------------------------------------
(* UpdateInfo, as asserted by the server.  An optional string that is absent
   is Undefined; a size is <<n>>, or <<>> when the field is absent. *)

NoSize == <<>>

Sizes == {NoSize} \cup {<<n>> : n \in 0..MaxSize}

NoHash == <<>>

NoInfo ==
  [isAvailable |-> FALSE, label |-> Null, packageHash |-> NoHash,
   patchUrl |-> Undefined, diffAgainstLabel |-> Undefined,
   patchSize |-> NoSize, packageSize |-> NoSize, assetsManifestUrl |-> Undefined]

\* JavaScript truthiness of an optional string and of an optional number.
truthyString(s) == s # Undefined /\ s # ""

falsyNumber(size) == size = NoSize \/ size[1] = 0

\* Mutant of belowThreshold: the comparison is not strict.
belowThreshold_Inclusive(patchSize, packageSize) == 10 * patchSize[1] <= 7 * packageSize[1]

\* patchSize < packageSize * 0.7 on numbers that are both present.  For
\* integer sizes the double product never rounds above 7/10 of packageSize,
\* so the comparison is the integer one.
belowThreshold(patchSize, packageSize) == 10 * patchSize[1] < 7 * packageSize[1]

\* Mutant of shouldUsePatch: the diff base is not asked for.
shouldUsePatch_NoDiffBase(info) ==
  /\ truthyString(info.patchUrl)
  /\ \/ falsyNumber(info.patchSize)
     \/ falsyNumber(info.packageSize)
     \/ belowThreshold(info.patchSize, info.packageSize)

\* downloadUpdate: shouldUsePatch
shouldUsePatch(info) ==
  /\ truthyString(info.patchUrl)
  /\ truthyString(info.diffAgainstLabel)
  /\ \/ falsyNumber(info.patchSize)
     \/ falsyNumber(info.packageSize)
     \/ belowThreshold(info.patchSize, info.packageSize)

\* downloadUpdate: the path taken.
downloadRoute(info) == IF shouldUsePatch(info) THEN "patch" ELSE "full"

\* A release of label l as the server publishes it, with or without a patch
\* against v1 and with or without an assets manifest.
release(l, patchUrl, manifestUrl) ==
  [isAvailable |-> TRUE, label |-> l, packageHash |-> calculateSHA256(releaseBytes(l)),
   patchUrl |-> patchUrl,
   diffAgainstLabel |-> IF patchUrl = Undefined THEN Undefined ELSE "v1",
   patchSize |-> IF patchUrl = Undefined THEN NoSize ELSE <<1>>,
   packageSize |-> <<2>>, assetsManifestUrl |-> manifestUrl]

\* What the update check can answer in the lifecycle specification.
ServerOffers ==
  {release(l, Undefined, Undefined) : l \in Labels}
    \cup {release(l, "patch.json", "manifest.json") : l \in Labels}

\* What the update check can answer in the download-decision specification.
WideOffers ==
  {[release("v2", Undefined, Undefined) EXCEPT
      !.patchUrl = u, !.diffAgainstLabel = d, !.patchSize = ps, !.packageSize = fs] :
     u \in {Undefined, "patch.json"}, d \in {Undefined, "v1"},
     ps \in Sizes, fs \in Sizes}

-----------------------------------------------------------------------------
(* The JS context: App's useEffect starts initStartupGuard(), update() and
   the notifyAppReady timer, none awaited. *)

IsgStart == [pc |-> "start", rec |-> NoItem]

IsgDone == [pc |-> "done", rec |-> NoItem]

NarTimer == [pc |-> "timer", label |-> Null]

NarDone == [pc |-> "done", label |-> Null]

NarOff == [pc |-> "off", label |-> Null]

UpdIdle ==
  [pc |-> "idle", info |-> NoInfo, route |-> "none", patchFetched |-> FALSE,
   fromLabel |-> Null]

UpdStart == [UpdIdle EXCEPT !.pc = "start"]

\* A JS context starts on selection sel and mounts App.
mount(sel) ==
  /\ proc' = "js"
  /\ loaded' = sel
  /\ runBytes' = bytesOf(sel, files)
  /\ isg' = IsgStart
  /\ nar' = NarTimer
  /\ upd' = UpdStart

\* The process, and with it the JS context, is gone.
unmount ==
  /\ proc' = "dead"
  /\ loaded' = NotLoaded
  /\ runBytes' = Missing
  /\ isg' = [pc |-> "off", rec |-> NoItem]
  /\ nar' = NarOff
  /\ upd' = UpdIdle

NoBootSeen == [attemptAt |-> 0, failCount |-> 0]

Init ==
  /\ platform \in {"ios", "android"}
  /\ now = TickMs
  /\ files = [p \in BundlePaths |-> Missing]
  /\ prefs = EmptyPrefs
  /\ storage = EmptyStorage
  /\ proc = "dead"
  /\ guardFail = 0
  /\ loaded = NotLoaded
  /\ runBytes = Missing
  /\ isg = [pc |-> "off", rec |-> NoItem]
  /\ nar = NarOff
  /\ upd = UpdIdle
  /\ pendingLoads = 0
  /\ rolledBack = FALSE
  /\ committed = Null
  /\ bootSeen = NoBootSeen

-----------------------------------------------------------------------------
(* Environment *)

Tick ==
  /\ now + TickMs <= MaxTicks * TickMs
  /\ now' = now + TickMs
  /\ UNCHANGED <<platform, files, prefs, storage, proc, guardFail, loaded, runBytes,
                 isg, nar, upd, pendingLoads, rolledBack, committed, bootSeen>>

\* The process dies: a crash of the bundle, a kill by the user or the system.
\* Mid-guard the already persisted fail count stays.
Crash ==
  /\ proc # "dead"
  /\ proc = "guard" => prefs.pendingFailCount < MaxFailCount
  /\ unmount
  /\ guardFail' = 0
  /\ bootSeen' = NoBootSeen
  /\ UNCHANGED <<platform, now, files, prefs, storage, pendingLoads, rolledBack, committed>>

-----------------------------------------------------------------------------
(* Boot guard: RNUpdateManager.bundleURL() / RNUpdateManagerModule.getBundlePath() *)

\* No pending path, or its file does not exist: the active bundle or the baseline.
BootNoPending ==
  /\ proc = "dead"
  /\ ~pendingApplies(prefs, files)
  /\ mount(activeOrBaseline(prefs, files))
  /\ committed' = Null
  /\ UNCHANGED <<platform, now, files, prefs, storage, guardFail, pendingLoads,
                 rolledBack, bootSeen>>

\* The guard reads the record and, on a record already attempted, persists
\* the incremented fail count.
BootGuardBegin ==
  /\ proc = "dead"
  /\ pendingApplies(prefs, files)
  /\ prefs' = guardCountAttempt(prefs)
  /\ guardFail' = prefs'.pendingFailCount
  /\ bootSeen' = [attemptAt |-> prefs.pendingAttemptAt, failCount |-> prefs.pendingFailCount]
  /\ proc' = "guard"
  /\ UNCHANGED <<platform, now, files, storage, loaded, runBytes, isg, nar, upd,
                 pendingLoads, rolledBack, committed>>

\* Mutant of BootGuardDecide: the rollback removes the post-boot record too.
BootGuardDecide_ClearsBothStores ==
  /\ proc = "guard"
  /\ IF guardRollsBack(guardFail)
       THEN /\ prefs' = clearPending(prefs)
            /\ storage' = removePending(storage)
            /\ mount(activeOrBaseline(prefs', files))
            /\ rolledBack' = TRUE
            /\ UNCHANGED pendingLoads
       ELSE /\ prefs' = [prefs EXCEPT !.pendingAttemptAt = now]
            /\ storage' = storage
            /\ mount(onBundle("pending", labelOfPath(prefs.pendingPath), storage))
            /\ pendingLoads' = IF pendingLoads < MaxLoads THEN pendingLoads + 1 ELSE pendingLoads
            /\ UNCHANGED rolledBack
  /\ guardFail' = 0
  /\ bootSeen' = NoBootSeen
  /\ committed' = Null
  /\ UNCHANGED <<platform, now, files>>

\* The guard decides: roll back, or record the attempt and load the pending bundle.
BootGuardDecide ==
  /\ proc = "guard"
  /\ IF guardRollsBack(guardFail)
       THEN /\ prefs' = clearPending(prefs)
            /\ mount(activeOrBaseline(prefs', files))
            /\ rolledBack' = TRUE
            /\ UNCHANGED pendingLoads
       ELSE /\ prefs' = [prefs EXCEPT !.pendingAttemptAt = now]
            /\ mount(onBundle("pending", labelOfPath(prefs.pendingPath), storage))
            /\ pendingLoads' = IF pendingLoads < MaxLoads THEN pendingLoads + 1 ELSE pendingLoads
            /\ UNCHANGED rolledBack
  /\ guardFail' = 0
  /\ bootSeen' = NoBootSeen
  /\ committed' = Null
  /\ UNCHANGED <<platform, now, files, storage>>

-----------------------------------------------------------------------------
(* initStartupGuard() *)

\* Mutant of startupGuardDecision: a record of exactly twice the confirmation
\* window is already too old.
startupGuardDecision_Inclusive(raw, t) ==
  IF raw = NoItem THEN <<"none">>
  ELSE IF t - raw[2].appliedAt >= STARTUP_CONFIRM_MS * 2 THEN <<"clear">>
  ELSE <<"none">>

\* Mutant of startupGuardDecision: the record is removed at the second
\* counted failure, the first being persisted.
startupGuardDecision_PersistsFirst(raw, t) ==
  IF raw = NoItem THEN <<"none">>
  ELSE IF t - raw[2].appliedAt > STARTUP_CONFIRM_MS * 2
    THEN IF raw[2].failCount + 1 >= 2
           THEN <<"clear">>
           ELSE <<"persist", <<"json", [raw[2] EXCEPT !.failCount = raw[2].failCount + 1]>>>>
    ELSE <<"none">>

\* What initStartupGuard decides on the stored item it read at time t:
\* <<"none">>, <<"clear">>, or <<"persist", record>>.
startupGuardDecision(raw, t) ==
  IF raw = NoItem THEN <<"none">>
  ELSE LET pending == parse(raw)
           age == t - pending.appliedAt
           failCount == pending.failCount + 1
       IN IF age > STARTUP_CONFIRM_MS * 2
            THEN IF failCount >= 1
                   THEN <<"clear">>
                   ELSE <<"persist", stringify([pending EXCEPT !.failCount = failCount])>>
            ELSE <<"none">>

\* getPending() resolves and the guard decides.
IsgRead ==
  /\ proc = "js"
  /\ isg.pc = "start"
  /\ LET d == startupGuardDecision(storage.pendingUpdate, now)
     IN isg' = IF d[1] = "none" THEN IsgDone
               ELSE [pc |-> "write", rec |-> IF d[1] = "clear" THEN NoItem ELSE d[2]]
  /\ UNCHANGED <<platform, now, files, prefs, storage, proc, guardFail, loaded, runBytes,
                 nar, upd, pendingLoads, rolledBack, committed, bootSeen>>

\* clearPending() (or the setItem of the updated record) reaches the store.
IsgWrite ==
  /\ proc = "js"
  /\ isg.pc = "write"
  /\ storage' = IF isg.rec = NoItem THEN removePending(storage)
                ELSE [storage EXCEPT !.pendingUpdate = isg.rec]
  /\ isg' = IsgDone
  /\ UNCHANGED <<platform, now, files, prefs, proc, guardFail, loaded, runBytes,
                 nar, upd, pendingLoads, rolledBack, committed, bootSeen>>

-----------------------------------------------------------------------------
(* notifyAppReady(), called by App's timer.  A bundle that crashes at start
   never gets as far as its timer or its update cycle. *)

Alive == proc = "js" /\ ~Crashy(runBytes)

\* The timer fires; getPending() resolves.
NarFire ==
  /\ Alive
  /\ nar.pc = "timer"
  /\ nar' = IF storage.pendingUpdate = NoItem THEN NarDone
            ELSE [pc |-> "setLabel", label |-> parse(storage.pendingUpdate).label]
  /\ UNCHANGED <<platform, now, files, prefs, storage, proc, guardFail, loaded, runBytes,
                 isg, upd, pendingLoads, rolledBack, committed, bootSeen>>

\* setCurrentLabel(pending.label)
NarSetLabel ==
  /\ Alive
  /\ nar.pc = "setLabel"
  /\ storage' = setCurrentLabel(storage, nar.label)
  /\ nar' = [nar EXCEPT !.pc = "clear"]
  /\ UNCHANGED <<platform, now, files, prefs, proc, guardFail, loaded, runBytes,
                 isg, upd, pendingLoads, rolledBack, committed, bootSeen>>

\* clearPending()
NarClear ==
  /\ Alive
  /\ nar.pc = "clear"
  /\ storage' = removePending(storage)
  /\ nar' = [nar EXCEPT !.pc = "mark"]
  /\ UNCHANGED <<platform, now, files, prefs, proc, guardFail, loaded, runBytes,
                 isg, upd, pendingLoads, rolledBack, committed, bootSeen>>

\* RNUpdateManager.markUpdateVerified(pending.label)
NarMark ==
  /\ Alive
  /\ nar.pc = "mark"
  /\ prefs' = markUpdateVerified(prefs, nar.label)
  /\ nar' = [nar EXCEPT !.pc = "report"]
  /\ UNCHANGED <<platform, now, files, storage, proc, guardFail, loaded, runBytes,
                 isg, upd, pendingLoads, rolledBack, committed, bootSeen>>

\* reportInstallComplete(pending): telemetry, errors swallowed.
NarReport ==
  /\ Alive
  /\ nar.pc = "report"
  /\ nar' = NarDone
  /\ UNCHANGED <<platform, now, files, prefs, storage, proc, guardFail, loaded, runBytes,
                 isg, upd, pendingLoads, rolledBack, committed, bootSeen>>

-----------------------------------------------------------------------------
(* update() *)

UpdFailed == [UpdIdle EXCEPT !.pc = "failed"]

\* The cycle at the install step: of updateInfo, applyUpdateAtomically reads
\* the label only.
installing(info) ==
  [UpdIdle EXCEPT !.pc = "install",
                  !.info = [NoInfo EXCEPT !.isAvailable = TRUE, !.label = info.label]]

\* Mutant of updStep: a step of the cycle drops the post-boot pending record.
updStep_DropsRecord(next) ==
  /\ upd' = next
  /\ storage' = [storage EXCEPT !.pendingUpdate = <<>>]
  /\ UNCHANGED <<platform, now, files, prefs, proc, guardFail, loaded, runBytes,
                 isg, nar, pendingLoads, rolledBack, committed, bootSeen>>

\* A step of the cycle that touches neither store nor the file system.
updStep(next) ==
  /\ upd' = next
  /\ UNCHANGED <<platform, now, files, prefs, storage, proc, guardFail, loaded, runBytes,
                 isg, nar, pendingLoads, rolledBack, committed, bootSeen>>

\* Mutant of updWrite: a download that leaves no file also drops the pending
\* record that points at it.
updWrite_DropsPending(next, path, bytes) ==
  /\ upd' = next
  /\ files' = [files EXCEPT ![path] = bytes]
  /\ prefs' = IF bytes = Missing /\ prefs.pendingPath = path THEN clearPending(prefs) ELSE prefs
  /\ UNCHANGED <<platform, now, storage, proc, guardFail, loaded, runBytes,
                 isg, nar, pendingLoads, rolledBack, committed, bootSeen>>

\* A download step: the cycle moves to next and the file at path becomes bytes.
updWrite(next, path, bytes) ==
  /\ upd' = next
  /\ files' = [files EXCEPT ![path] = bytes]
  /\ UNCHANGED <<platform, now, prefs, storage, proc, guardFail, loaded, runBytes,
                 isg, nar, pendingLoads, rolledBack, committed, bootSeen>>

\* onCheckStart, checkForUpdate, onCheckComplete: the request fails, or the
\* server has nothing, or it offers a release.
UpdCheckNoOffer ==
  /\ Alive
  /\ upd.pc = "start"
  /\ \/ updStep(UpdFailed)
     \/ updStep([UpdIdle EXCEPT !.pc = "done"])

UpdCheck ==
  \/ UpdCheckNoOffer
  \/ /\ Alive
     /\ upd.pc = "start"
     /\ \E info \in ServerOffers : updStep([upd EXCEPT !.pc = "reportDl", !.info = info])

\* onDownloadStart, reportDownloadStart; downloadUpdate then picks its path.
UpdReportDownloadStart ==
  /\ Alive
  /\ upd.pc = "reportDl"
  /\ updStep([upd EXCEPT !.pc = downloadRoute(upd.info), !.route = downloadRoute(upd.info)])

\* The patch path: the patch is fetched; reconstruction fails before writing,
\* or writes the new bundle, which is then verified.  Any failure goes on to
\* the full download.
UpdPatch ==
  /\ Alive
  /\ upd.pc = "patch"
  /\ LET path == bundlePath(upd.info.label)
         fetched == [upd EXCEPT !.patchFetched = TRUE]
     IN \/ updStep([fetched EXCEPT !.pc = "full"])
        \/ \E bytes \in transferBytes(upd.info.label) :
             updWrite([fetched EXCEPT !.pc =
                         IF verifyBundle([files EXCEPT ![path] = bytes], path, upd.info.packageHash)
                           THEN "assets" ELSE "full"],
                      path, bytes)

\* downloadFullBundle: the native download fails before touching the file, or
\* after removing the old file, or it writes the file, which is then verified.
UpdFull ==
  /\ Alive
  /\ upd.pc = "full"
  /\ LET path == bundlePath(upd.info.label)
     IN \/ updStep(UpdFailed)
        \/ updWrite(UpdFailed, path, Missing)
        \/ \E bytes \in transferBytes(upd.info.label) :
             updWrite(IF verifyBundle([files EXCEPT ![path] = bytes], path,
                                      upd.info.packageHash)
                        THEN [upd EXCEPT !.pc = "assets"] ELSE UpdFailed,
                      path, bytes)

\* onDownloadComplete; syncAssets when a manifest is named (it succeeds or
\* throws); onInstallStart.
UpdAssets ==
  /\ Alive
  /\ upd.pc = "assets"
  /\ \/ updStep(installing(upd.info))
     \/ /\ truthyString(upd.info.assetsManifestUrl)
        /\ updStep(UpdFailed)

\* getCurrentLabel(); applyUpdateAtomically: RNUpdateManager.setPendingUpdate
UpdSetPendingUpdate ==
  /\ Alive
  /\ upd.pc = "install"
  /\ prefs' = setPendingUpdate(prefs, upd.info.label, bundlePath(upd.info.label))
  /\ upd' = [upd EXCEPT !.pc = "setPending", !.fromLabel = storage.activeLabel]
  /\ pendingLoads' = 0
  /\ rolledBack' = FALSE
  /\ UNCHANGED <<platform, now, files, storage, proc, guardFail, loaded, runBytes,
                 isg, nar, committed, bootSeen>>

\* applyUpdateAtomically: setPending
UpdSetPending ==
  /\ Alive
  /\ upd.pc = "setPending"
  /\ storage' = setPending(storage, upd.info.label, bundlePath(upd.info.label),
                           upd.fromLabel, now)
  /\ upd' = [upd EXCEPT !.pc = "reload"]
  /\ committed' = upd.info.label
  /\ UNCHANGED <<platform, now, files, prefs, proc, guardFail, loaded, runBytes,
                 isg, nar, pendingLoads, rolledBack, bootSeen>>

\* applyUpdateAtomically: RNUpdateManager.reloadBundle(bundlePath).  The call
\* is rejected and the cycle fails in the running context; or (iOS) the bridge
\* is pointed at bundlePath and reloaded; or (Android) the React context is
\* recreated on the bundle the host was started with.
UpdReload ==
  /\ Alive
  /\ upd.pc = "reload"
  /\ \/ updStep(UpdFailed)
     \/ /\ platform = "ios"
        /\ mount(onBundle("reload", upd.info.label, storage))
        /\ UNCHANGED <<platform, now, files, prefs, storage, guardFail,
                       pendingLoads, rolledBack, committed, bootSeen>>
     \/ /\ platform = "android"
        /\ IF bytesOf(loaded, files) = Missing THEN unmount ELSE mount(loaded)
        /\ UNCHANGED <<platform, now, files, prefs, storage, guardFail,
                       pendingLoads, rolledBack, committed, bootSeen>>

-----------------------------------------------------------------------------

Next ==
  \/ Tick
  \/ Crash
  \/ BootNoPending
  \/ BootGuardBegin
  \/ BootGuardDecide
  \/ IsgRead
  \/ IsgWrite
  \/ NarFire
  \/ NarSetLabel
  \/ NarClear
  \/ NarMark
  \/ NarReport
  \/ UpdCheck
  \/ UpdReportDownloadStart
  \/ UpdPatch
  \/ UpdFull
  \/ UpdAssets
  \/ UpdSetPendingUpdate
  \/ UpdSetPending
  \/ UpdReload

Spec == Init /\ [][Next]_vars

-----------------------------------------------------------------------------
(* The download decision on its own: a cycle that has an offer in hand, for
   every combination of patch URL, diff base and sizes. *)

InitPatch ==
  /\ platform \in {"ios", "android"}
  /\ now = TickMs
  /\ files = [p \in BundlePaths |-> Missing]
  /\ prefs = EmptyPrefs
  /\ storage = EmptyStorage
  /\ proc = "js"
  /\ guardFail = 0
  /\ loaded = [kind |-> "baseline", label |-> Null, recorded |-> FALSE]
  /\ runBytes = BaselineBytes
  /\ isg = IsgDone
  /\ nar = NarDone
  /\ \E info \in WideOffers : upd = [UpdIdle EXCEPT !.pc = "reportDl", !.info = info]
  /\ pendingLoads = 0
  /\ rolledBack = FALSE
  /\ committed = Null
  /\ bootSeen = NoBootSeen

NextPatch ==
  \/ UpdReportDownloadStart
  \/ UpdPatch
  \/ UpdFull

SpecPatch == InitPatch /\ [][NextPatch]_vars

-----------------------------------------------------------------------------
(* Steps of the boot guard, as seen in a transition *)

\* A process start: the guard begins its evaluation.
BootBegins == proc = "dead" /\ proc' # "dead"

\* The guard finishes an evaluation that found an applicable pending record.
GuardDecides == proc = "guard" /\ proc' = "js"

\* A process start hands a bundle to the runtime.
BootCompletes == proc # "js" /\ proc' = "js"

RollbackLoad == {"active", "baseline"}

\* The digest the server declares for the release of a label.
packageHashOf(label) == calculateSHA256(releaseBytes(label))

-----------------------------------------------------------------------------
(* C1 *)

\* This JS context runs the bundle of label l.
Running(l) == proc = "js" /\ loaded.label = l /\ loaded.kind \in {"pending", "reload"}

\* C1: ActiveLabel, in either store, is only ever set to the label of the
\* bundle that is running when it is confirmed: a step that changes
\* ActiveLabel in the post-boot or the pre-boot store is taken in a context
\* that runs that label's pending bundle.
C1_ActiveLabelConfirmedWhileRunning ==
  [][/\ storage'.activeLabel # storage.activeLabel => Running(storage'.activeLabel)
     /\ prefs'.activeLabel # prefs.activeLabel => Running(prefs'.activeLabel)]_vars

-----------------------------------------------------------------------------
(* C2 *)

\* Every later process start loads the bad release v2: it is the active
\* bundle of the pre-boot store, its file is in place, no pending record is
\* left to roll back, and v2 never runs long enough to change any of this.
Bricked ==
  /\ prefs.activeLabel = "v2"
  /\ prefs.pendingPath = NoPath
  /\ files[bundlePath("v2")] = releaseBytes("v2")
  /\ Crashy(releaseBytes("v2"))

\* C2: a bad update cannot permanently brick the app: no reachable state is
\* one from which every later process start loads the crashing bundle.
C2_NeverBricked == ~Bricked

-----------------------------------------------------------------------------
(* C3 *)

\* What the guard does once it evaluates a record: a fresh record is loaded,
\* its attempt recorded and the record kept; an attempted record has its fail
\* count incremented (from 0 to 1) and is cleared, and the active bundle or
\* the baseline is loaded.
GuardOutcome ==
  /\ (GuardDecides /\ bootSeen.attemptAt = 0 /\ bootSeen.failCount = 0) =>
       /\ loaded'.kind = "pending"
       /\ loaded'.label = prefs.pendingLabel
       /\ prefs' = [prefs EXCEPT !.pendingAttemptAt = now]
       /\ prefs'.pendingAttemptAt > 0
  /\ (GuardDecides /\ bootSeen.attemptAt > 0) =>
       /\ prefs.pendingFailCount = bootSeen.failCount + 1
       /\ prefs' = clearPending(prefs)
       /\ loaded' = activeOrBaseline(prefs, files)

-----------------------------------------------------------------------------
(* C4 *)

\* C4: a record that has failCount >= 1 when the guard evaluates it is
\* cleared and the active bundle or the baseline is loaded; and every later
\* evaluation, as long as nothing new is installed, loads the active bundle
\* or the baseline and leaves no pending record.
C4_IdempotentRollback ==
  [][/\ (BootBegins /\ prefs.pendingPath # NoPath /\ prefs.pendingFailCount >= 1) =>
          proc' = "guard"
     /\ (GuardDecides /\ bootSeen.failCount >= 1) =>
          /\ prefs'.pendingPath = NoPath
          /\ prefs'.pendingLabel = Null
          /\ loaded' = activeOrBaseline(prefs, files)
          /\ rolledBack'
     /\ (BootCompletes /\ rolledBack) =>
          /\ loaded'.kind \in RollbackLoad
          /\ prefs'.pendingPath = NoPath]_vars

\* The guard is evaluating a record that already had a failure counted.
C4_Witness ==
  /\ proc = "guard"
  /\ bootSeen.failCount >= 1
  /\ guardFail >= 2

-----------------------------------------------------------------------------
(* C5 *)

\* C5: the bundle file the boot guard selects, as the pending bundle or as
\* the ActiveLabel bundle, has the digest declared for its label.
C5_IntegrityGate ==
  [][(BootCompletes /\ loaded'.kind \in {"pending", "active"}) =>
       calculateSHA256(runBytes') = packageHashOf(loaded'.label)]_vars

-----------------------------------------------------------------------------
(* C6 *)

\* C6: once a context that the boot guard started on the pending bundle of
\* an installed label l (recorded in both stores) has run initStartupGuard
\* and notifyAppReady to their end, l is the ActiveLabel of both stores and
\* the post-boot pending record is gone (unless this context's own update
\* cycle has written a new one).
C6_HealthyUpdateConfirmed ==
  (/\ proc = "js"
   /\ loaded.kind = "pending"
   /\ loaded.recorded
   /\ isg.pc = "done"
   /\ nar.pc = "done") =>
     /\ storage.activeLabel = loaded.label
     /\ prefs.activeLabel = loaded.label
     /\ upd.pc \notin {"reload", "failed"} => storage.pendingUpdate = NoItem

-----------------------------------------------------------------------------
(* C7 *)

\* C7: after an install has written its pending record for label l, the
\* next process start loads l's pending bundle through the boot guard.
C7_InstallBoundary ==
  [][(BootCompletes /\ committed # Null) =>
       (loaded'.kind = "pending" /\ loaded'.label = committed)]_vars

-----------------------------------------------------------------------------
(* C8 *)

BeforeInstall == {"start", "reportDl", "patch", "full", "assets"}

\* C8: a step of the update cycle before the install step, whether it ends
\* the cycle or not, changes neither the pending record nor ActiveLabel in
\* either store.
C8_NoStoreWriteBeforeInstall ==
  [][(proc = "js" /\ proc' = "js" /\ upd.pc \in BeforeInstall /\ upd' # upd) =>
       (prefs' = prefs /\ storage' = storage)]_vars

\* A cycle has failed before its install step while both stores hold a
\* pending record.
C8_Witness ==
  /\ proc = "js"
  /\ upd.pc = "failed"
  /\ committed = Null
  /\ prefs.pendingPath # NoPath
  /\ prefs.pendingAttemptAt > 0
  /\ storage.pendingUpdate # NoItem

-----------------------------------------------------------------------------
(* C9 *)

present(s) == s # Undefined

absent(size) == size = NoSize

\* The cycle has chosen its download path.
RouteChosen == upd.route # "none"

\* The claimed condition, a size being unknown when the field is absent.
PatchConditionAbsent(info) ==
  /\ present(info.patchUrl)
  /\ present(info.diffAgainstLabel)
  /\ \/ absent(info.patchSize)
     \/ absent(info.packageSize)
     \/ 10 * info.patchSize[1] < 7 * info.packageSize[1]

\* The claimed condition, a size being unknown when the field is absent or 0.
PatchConditionAbsentOrZero(info) ==
  /\ present(info.patchUrl)
  /\ present(info.diffAgainstLabel)
  /\ \/ absent(info.patchSize) \/ info.patchSize = <<0>>
     \/ absent(info.packageSize) \/ info.packageSize = <<0>>
     \/ 10 * info.patchSize[1] < 7 * info.packageSize[1]

-----------------------------------------------------------------------------
(* C10 *)

AtOrAboveThreshold(info) ==
  /\ ~absent(info.patchSize)
  /\ ~absent(info.packageSize)
  /\ 10 * info.patchSize[1] >= 7 * info.packageSize[1]

\* C10 as stated: for every offer with patchSize >= 0.7 * packageSize, the
\* value 0 included for either size, the full path is chosen and no patch is
\* fetched.
C10_FallbackAnySize ==
  (RouteChosen /\ AtOrAboveThreshold(upd.info)) =>
     (upd.route = "full" /\ ~upd.patchFetched)

\* C10 amended: the same for offers whose two sizes are both nonzero.
C10_Fallback ==
  (/\ RouteChosen
   /\ AtOrAboveThreshold(upd.info)
   /\ upd.info.patchSize # <<0>>
   /\ upd.info.packageSize # <<0>>) =>
     (upd.route = "full" /\ ~upd.patchFetched)

\* The full download runs for an offer that has a patch exactly at the threshold.
C10_Witness ==
  /\ upd.pc = "full"
  /\ upd.route = "full"
  /\ present(upd.info.patchUrl)
  /\ present(upd.info.diffAgainstLabel)
  /\ upd.info.patchSize = <<7>>
  /\ upd.info.packageSize = <<10>>

-----------------------------------------------------------------------------
(* Text files.  A file is a sequence of bytes; readFile(path, 'utf8') decodes
   it into a string (a sequence of UTF-16 code units) and writeFile(path,
   text, 'utf8') encodes a string.  A byte below 0x80 is written as the
   character it encodes; U+00E9 is the two bytes C3 A9. *)

EAcute == "U+00E9"

ReplacementChar == "U+FFFD"

utf8EncodeChar(c) ==
  IF c = EAcute THEN <<"C3", "A9">>
  ELSE IF c = ReplacementChar THEN <<"EF", "BF", "BD">>
  ELSE <<c>>

RECURSIVE utf8Encode(_)
utf8Encode(text) ==
  IF text = <<>> THEN <<>> ELSE utf8EncodeChar(Head(text)) \o utf8Encode(Tail(text))

ContinuationOrLead == {"C3", "A9", "EF", "BF", "BD"}

RECURSIVE utf8Decode(_)
utf8Decode(bytes) ==
  IF bytes = <<>> THEN <<>>
  ELSE IF Len(bytes) >= 2 /\ SubSeq(bytes, 1, 2) = <<"C3", "A9">>
    THEN <<EAcute>> \o utf8Decode(SubSeq(bytes, 3, Len(bytes)))
  ELSE IF Len(bytes) >= 3 /\ SubSeq(bytes, 1, 3) = <<"EF", "BF", "BD">>
    THEN <<ReplacementChar>> \o utf8Decode(SubSeq(bytes, 4, Len(bytes)))
  ELSE IF Head(bytes) \in ContinuationOrLead
    THEN <<ReplacementChar>> \o utf8Decode(Tail(bytes))
  ELSE <<Head(bytes)>> \o utf8Decode(Tail(bytes))

\* String.prototype.slice(start, end) on integers.
sliceIndex(i, len) == IF i < 0 THEN (IF len + i < 0 THEN 0 ELSE len + i)
                      ELSE (IF i > len THEN len ELSE i)

slice(text, start, end) ==
  LET from == sliceIndex(start, Len(text))
      to == sliceIndex(end, Len(text))
  IN IF from < to THEN SubSeq(text, from + 1, to) ELSE <<>>

-----------------------------------------------------------------------------
(* applyChunkPatch.  A patch document is [algorithm, baseHash, ops]; an op is
   <<"c", offset, length>>, <<"d", data>>, or something else (<<>>, another
   kind), which is skipped.  An absent baseHash is NoHash, the empty string
   is <<"">>. *)

CHUNK_V1 == "chunk-v1"

EmptyHash == <<"">>

truthyHash(h) == h # NoHash /\ h # EmptyHash

\* A JSON null in the place of an op, and a JSON number n as the data of a
\* literal.
NullOp == <<"null">>

jsonNumber(n) == <<"num", n>>

isNumber(data) == Len(data) = 2 /\ data[1] = "num"

\* Decimal digits of a number below ten, as join('') writes it.
numberText(n) == << <<"0", "1", "2", "3", "4", "5", "6", "7", "8", "9">>[n + 1] >>

\* op[1] || '' as join('') writes it.
literalPart(data) ==
  IF isNumber(data) THEN (IF data[2] = 0 THEN <<>> ELSE numberText(data[2]))
  ELSE data

\* Mutant of opPart: an op of unknown kind contributes its tag.
opPart_KeepsUnknownKind(op, baseText) ==
  IF op = NullOp \/ op = <<>> THEN <<>>
  ELSE IF op[1] = "c"
    THEN (IF Len(op) >= 3 THEN slice(baseText, op[2], op[2] + op[3]) ELSE <<>>)
  ELSE IF op[1] = "d"
    THEN (IF Len(op) >= 2 THEN literalPart(op[2]) ELSE <<>>)
  ELSE <<op[1]>>

\* What one op contributes to parts.
opPart(op, baseText) ==
  IF op = NullOp \/ op = <<>> THEN <<>>
  ELSE IF op[1] = "c"
    THEN (IF Len(op) >= 3 THEN slice(baseText, op[2], op[2] + op[3]) ELSE <<>>)
  ELSE IF op[1] = "d"
    THEN (IF Len(op) >= 2 THEN literalPart(op[2]) ELSE <<>>)
  ELSE <<>>

\* Mutant of joinParts: the parts are joined last to first.
RECURSIVE joinParts_Reversed(_, _)
joinParts_Reversed(ops, baseText) ==
  IF ops = <<>> THEN <<>>
  ELSE joinParts_Reversed(Tail(ops), baseText) \o opPart(Head(ops), baseText)

\* The loop over patch.ops and parts.join('').
RECURSIVE joinParts(_, _)
joinParts(ops, baseText) ==
  IF ops = <<>> THEN <<>>
  ELSE opPart(Head(ops), baseText) \o joinParts(Tail(ops), baseText)

NoThrow == "none"

\* Mutant of applyChunkPatch: the base hash is compared after the new file
\* is written.
applyChunkPatch_ChecksAfterWrite(patch, fs, oldBundlePath, newBundlePath) ==
  LET newText == joinParts(patch.ops, utf8Decode(fs[oldBundlePath]))
      written == [fs EXCEPT ![newBundlePath] = utf8Encode(newText)]
  IN IF patch.algorithm # CHUNK_V1
       THEN [threw |-> "Unsupported patch algorithm", files |-> fs]
     ELSE IF truthyHash(patch.baseHash) /\ calculateSHA256(fs[oldBundlePath]) # patch.baseHash
       THEN [threw |-> "Patch base hash mismatch", files |-> written]
     ELSE [threw |-> NoThrow, files |-> written]

\* applyChunkPatch(patchPath, oldBundlePath, newBundlePath) on the parsed
\* patch document: what it throws, if anything, and the file system it leaves.
applyChunkPatch(patch, fs, oldBundlePath, newBundlePath) ==
  IF patch.algorithm # CHUNK_V1
    THEN [threw |-> "Unsupported patch algorithm", files |-> fs]
  ELSE IF truthyHash(patch.baseHash) /\ calculateSHA256(fs[oldBundlePath]) # patch.baseHash
    THEN [threw |-> "Patch base hash mismatch", files |-> fs]
  ELSE LET newText == joinParts(patch.ops, utf8Decode(fs[oldBundlePath]))
       IN [threw |-> NoThrow, files |-> [fs EXCEPT ![newBundlePath] = utf8Encode(newText)]]

-----------------------------------------------------------------------------
(* One update() cycle in detail: the lifecycle hooks it fires, the telemetry
   it sends, the promise it returns, the patch it applies and the assets it
   synchronises.  The record of the cycle carries, besides the fields above:
     hooks      the lifecycle hooks fired so far, in order
     reports    the telemetry requests sent so far, in order
     promise    "pending" | "resolved" | "rejected": the promise update() returned
     collector  how the telemetry collector treats a request in this run:
                "answers", "fails" (the fetch rejects) or "silent" (no response)
     error      the message of the error that reached the catch block
     patchThrew the message of the error the patch path caught
     fullStarted, fullVerified  downloadFullBundle was called / it returned
     manifest   number of entries of the assets manifest that was fetched *)

MaxAssets == 2

\* The bundle embedded in the binary, as a file the patch path can read:
\* main.jsbundle (iOS), bundles/base/index.bundle (Android).
BasePath == bundlePath("base")

\* assets/<label>/<file.path> of the i-th manifest entry.
assetPath(label, i) == <<"assets", label, i>>

AssetPaths == {assetPath("v2", i) : i \in 1..MaxAssets}

\* Contents of an asset file: what the manifest declares, an older version,
\* and what a bad transfer leaves.
declaredAsset(i) == <<"asset", i, "declared">>

staleAsset(i) == <<"asset", i, "stale">>

corruptAsset(i) == <<"asset", i, "corrupt">>

hashFile(bytes) == <<"sha256", bytes>>

\* The manifest with n file entries, its raw text and the digest of that text.
manifestFiles(n) ==
  [i \in 1..n |-> [path |-> assetPath("v2", i), hash |-> hashFile(declaredAsset(i))]]

manifestRaw(n) == <<"manifest", n>>

manifestHash(n) == <<"sha256", manifestRaw(n)>>

\* What RNFS.downloadFile does for one asset: the promise rejects, or the
\* file is written with the declared or with other content.
AssetDownloads == {"rejects", "declared", "corrupt"}

\* Mutant of syncFiles: a mismatch after download is passed over.
RECURSIVE syncFiles_SkipsMismatch(_, _, _)
syncFiles_SkipsMismatch(entries, fs, dl) ==
  IF entries = <<>> THEN [threw |-> NoThrow, files |-> fs]
  ELSE LET file == Head(entries)
       IN IF fs[file.path] # Missing /\ hashFile(fs[file.path]) = file.hash
            THEN syncFiles_SkipsMismatch(Tail(entries), fs, dl)
          ELSE IF dl[file.path] = "rejects"
            THEN [threw |-> "Asset download failed", files |-> fs]
          ELSE syncFiles_SkipsMismatch(Tail(entries),
                 [fs EXCEPT ![file.path] = <<"asset", file.path[3], dl[file.path]>>], dl)

\* syncAssets: the loop over manifest.files.
RECURSIVE syncFiles(_, _, _)
syncFiles(entries, fs, dl) ==
  IF entries = <<>> THEN [threw |-> NoThrow, files |-> fs]
  ELSE LET file == Head(entries)
       IN IF fs[file.path] # Missing /\ hashFile(fs[file.path]) = file.hash
            THEN syncFiles(Tail(entries), fs, dl)
          ELSE IF dl[file.path] = "rejects"
            THEN [threw |-> "Asset download failed", files |-> fs]
          ELSE LET downloaded == [fs EXCEPT ![file.path] =
                                    <<"asset", file.path[3], dl[file.path]>>]
               IN IF hashFile(downloaded[file.path]) # file.hash
                    THEN [threw |-> "Asset hash mismatch", files |-> downloaded]
                    ELSE syncFiles(Tail(entries), downloaded, dl)

\* Mutant of syncAssets: the manifest's digest is compared after the files
\* have been synchronised.
syncAssets_ChecksAfterSync(n, fs, expectedHash, dl) ==
  LET r == syncFiles(manifestFiles(n), fs, dl)
  IN IF r.threw = NoThrow /\ truthyHash(expectedHash) /\ manifestHash(n) # expectedHash
       THEN [threw |-> "Assets manifest hash mismatch", files |-> r.files]
       ELSE r

\* syncAssets, once the manifest of n entries has been fetched.
syncAssets(n, fs, expectedHash, dl) ==
  IF truthyHash(expectedHash) /\ manifestHash(n) # expectedHash
    THEN [threw |-> "Assets manifest hash mismatch", files |-> fs]
    ELSE syncFiles(manifestFiles(n), fs, dl)

\* getCurrentBundlePath(): the active bundle, else the embedded one.
getCurrentBundlePath(p, fs) ==
  IF getActiveBundlePath(p, fs) # NoPath THEN getActiveBundlePath(p, fs)
  ELSE IF fs[BasePath] # Missing THEN BasePath
  ELSE NoPath

\* Patch documents the server can publish for v2: the diff of v2 against v1
\* or ops that do not give v2, with or without the base hash, under the one
\* supported algorithm or another.
DiffV1ToV2 == << <<"c", 0, 1>>, <<"d", <<"v2">>>> >>

CyclePatchDocs ==
  {[algorithm |-> a, baseHash |-> h, ops |-> o] :
     a \in {CHUNK_V1, "bsdiff"},
     h \in {NoHash, calculateSHA256(releaseBytes("v1"))},
     o \in {DiffV1ToV2, << <<"c", 0, 2>> >>}}

\* The offers of the check: v2 with or without a patch, with or without an
\* assets manifest, the manifest's digest absent, empty or declared.
CycleOffers ==
  {release("v2", u, m) @@ [assetsHash |-> h] :
     u \in {Undefined, "patch.json"}, m \in {Undefined, "manifest.json"},
     h \in {NoHash, EmptyHash, manifestHash(MaxAssets)}}

CycleStart(collector) ==
  UpdStart @@ [hooks |-> <<>>, reports |-> <<>>, promise |-> "pending",
               collector |-> collector, error |-> NoThrow, patchThrew |-> NoThrow,
               fullStarted |-> FALSE, fullVerified |-> FALSE, manifest |-> 0]

\* options?.onX?.()
fire(u, hook) == [u EXCEPT !.hooks = Append(@, hook)]

\* An error is thrown inside the try block of update().
thrown(u, message) == [u EXCEPT !.pc = "catch", !.error = message]

\* A step of the cycle: the record and the file system change.
cycleStep(next, fs) ==
  /\ upd' = next
  /\ files' = fs
  /\ UNCHANGED <<platform, now, prefs, storage, proc, guardFail, loaded, runBytes,
                 isg, nar, pendingLoads, rolledBack, committed, bootSeen>>

\* Mutant of checkCompleted: the two check hooks fire in the other order.
checkCompleted_Swapped(u) == fire(fire(u, "onCheckComplete"), "onCheckStart")

\* onCheckStart, a checkForUpdate() that returns, onCheckComplete.
checkCompleted(u) == fire(fire(u, "onCheckStart"), "onCheckComplete")

\* onCheckStart; checkForUpdate throws (the request fails, the body is not
\* JSON), or returns null, or returns the offer; onCheckComplete.
CycleCheck ==
  /\ Alive
  /\ upd.pc = "start"
  /\ \/ cycleStep(thrown(fire(upd, "onCheckStart"), "Network request failed"), files)
     \/ cycleStep([checkCompleted(upd) EXCEPT !.pc = "done", !.promise = "resolved"], files)
     \/ \E info \in CycleOffers :
          cycleStep([checkCompleted(upd) EXCEPT !.pc = "downloadStart", !.info = info], files)

\* onDownloadStart; reportDownloadStart sends its request and update() awaits it.
CycleDownloadStart ==
  /\ Alive
  /\ upd.pc = "downloadStart"
  /\ cycleStep([fire(upd, "onDownloadStart") EXCEPT
                  !.pc = "reportDl", !.reports = Append(@, "download-start")], files)

\* The fetch of reportDownloadStart settles (a rejection is swallowed);
\* downloadUpdate then picks its path.
CycleDownloadStartSettles ==
  /\ Alive
  /\ upd.pc = "reportDl"
  /\ upd.collector # "silent"
  /\ cycleStep([upd EXCEPT !.pc = downloadRoute(upd.info),
                           !.route = downloadRoute(upd.info)], files)

\* Mutant of patchFailed: a failure of the patch path is not caught.
patchFailed_Fatal(u, message) == thrown([u EXCEPT !.patchThrew = message], message)

\* The catch block of the patch path: on to downloadFullBundle.
patchFailed(u, message) == [u EXCEPT !.pc = "full", !.patchThrew = message]

\* The patch path of downloadUpdate: downloadPatch, getCurrentBundlePath,
\* applyChunkPatch, verifyBundle.
CyclePatch ==
  /\ Alive
  /\ upd.pc = "patch"
  /\ \E progress \in BOOLEAN :
       LET fetching == [(IF progress THEN fire(upd, "onDownloadProgress") ELSE upd)
                          EXCEPT !.patchFetched = TRUE]
           oldBundlePath == getCurrentBundlePath(prefs, files)
           newBundlePath == bundlePath(upd.info.label)
       IN \/ cycleStep(patchFailed(fetching, "Patch download failed"), files)
          \/ /\ oldBundlePath = NoPath
             /\ cycleStep(patchFailed(fetching, "Base bundle not found"), files)
          \/ /\ oldBundlePath # NoPath
             /\ \E patch \in CyclePatchDocs :
                  LET r == applyChunkPatch(patch, files, oldBundlePath, newBundlePath)
                  IN IF r.threw # NoThrow
                       THEN cycleStep(patchFailed(fetching, r.threw), r.files)
                     ELSE IF ~verifyBundle(r.files, newBundlePath, upd.info.packageHash)
                       THEN cycleStep(patchFailed(fetching, "Patch bundle hash mismatch"),
                                      r.files)
                     ELSE cycleStep([fetching EXCEPT !.pc = "assets"], r.files)

\* downloadFullBundle: the native download rejects, leaving the file as it
\* was or removed, or it writes the file, which is then verified.
CycleFull ==
  /\ Alive
  /\ upd.pc = "full"
  /\ \E progress \in BOOLEAN :
       LET downloading == [(IF progress THEN fire(upd, "onDownloadProgress") ELSE upd)
                             EXCEPT !.fullStarted = TRUE]
           path == bundlePath(upd.info.label)
       IN \/ cycleStep(thrown(downloading, "download_error"), files)
          \/ cycleStep(thrown(downloading, "download_error"),
                       [files EXCEPT ![path] = Missing])
          \/ \E bytes \in transferBytes(upd.info.label) :
               LET written == [files EXCEPT ![path] = bytes]
               IN IF verifyBundle(written, path, upd.info.packageHash)
                    THEN cycleStep([downloading EXCEPT !.pc = "assets",
                                                       !.fullVerified = TRUE], written)
                    ELSE cycleStep(thrown(downloading, "Bundle hash mismatch"), written)

\* onDownloadComplete; syncAssets when a manifest is named; onInstallStart.
CycleAssets ==
  /\ Alive
  /\ upd.pc = "assets"
  /\ LET completed == fire(upd, "onDownloadComplete")
     IN IF ~truthyString(upd.info.assetsManifestUrl)
          THEN cycleStep(fire([completed EXCEPT !.pc = "install"], "onInstallStart"), files)
          ELSE \/ cycleStep(thrown(completed, "Network request failed"), files)
               \/ \E n \in 0..MaxAssets, dl \in [AssetPaths -> AssetDownloads] :
                    LET r == syncAssets(n, files, upd.info.assetsHash, dl)
                        synced == [completed EXCEPT !.manifest = n]
                    IN IF r.threw # NoThrow
                         THEN cycleStep(thrown(synced, r.threw), r.files)
                         ELSE cycleStep(fire([synced EXCEPT !.pc = "install"],
                                             "onInstallStart"), r.files)

\* reloadBundle: the call is rejected; or it resolves and update() goes on to
\* onInstallComplete; or the JS context is torn down before anything else runs.
CycleReload ==
  /\ Alive
  /\ upd.pc = "reload"
  /\ \/ cycleStep(thrown(upd, "reload_error"), files)
     \/ cycleStep([fire(upd, "onInstallComplete") EXCEPT
                     !.pc = "done", !.promise = "resolved"], files)
     \/ cycleStep([upd EXCEPT !.pc = "torn"], files)

\* Mutant of catchError: onError is called again after the report is sent.
catchError_Twice(u) ==
  fire([fire(u, "onError") EXCEPT !.pc = "reportError",
                                  !.reports = Append(@, "report-error")], "onError")

\* The catch block of update(): onError, then reportError sends its request.
catchError(u) ==
  [fire(u, "onError") EXCEPT !.pc = "reportError", !.reports = Append(@, "report-error")]

CycleCatch ==
  /\ Alive
  /\ upd.pc = "catch"
  /\ cycleStep(catchError(upd), files)

\* The fetch of reportError settles; throw err.
CycleRethrow ==
  /\ Alive
  /\ upd.pc = "reportError"
  /\ upd.collector # "silent"
  /\ cycleStep([upd EXCEPT !.pc = "failed", !.promise = "rejected"], files)

\* A context on the baseline (fresh install) or on the confirmed release v1,
\* about to run update().  The asset directory of v2 holds any mix of absent,
\* older and current files.
InitCycle ==
  /\ platform \in {"ios", "android"}
  /\ now = TickMs
  /\ \E active \in {Null, "v1"}, base \in {Missing, BaselineBytes},
        assets \in [AssetPaths -> {"absent", "stale", "declared"}] :
       /\ files = [p \in BundlePaths \cup {BasePath} \cup AssetPaths |->
                     IF p = BasePath THEN base
                     ELSE IF p \in AssetPaths
                       THEN (IF assets[p] = "absent" THEN Missing
                             ELSE <<"asset", p[3], assets[p]>>)
                     ELSE IF active # Null /\ p = bundlePath(active) THEN releaseBytes(active)
                     ELSE Missing]
       /\ prefs = [EmptyPrefs EXCEPT !.activeLabel = active]
       /\ storage = [EmptyStorage EXCEPT !.activeLabel = active]
       /\ loaded = IF active = Null
                     THEN [kind |-> "baseline", label |-> Null, recorded |-> FALSE]
                     ELSE [kind |-> "active", label |-> active, recorded |-> FALSE]
       /\ runBytes = IF active = Null THEN BaselineBytes ELSE releaseBytes(active)
  /\ proc = "js"
  /\ guardFail = 0
  /\ isg = IsgDone
  /\ nar = NarDone
  /\ \E collector \in {"answers", "fails", "silent"} : upd = CycleStart(collector)
  /\ pendingLoads = 0
  /\ rolledBack = FALSE
  /\ committed = Null
  /\ bootSeen = NoBootSeen

NextCycle ==
  \/ CycleCheck
  \/ CycleDownloadStart
  \/ CycleDownloadStartSettles
  \/ CyclePatch
  \/ CycleFull
  \/ CycleAssets
  \/ UpdSetPendingUpdate
  \/ UpdSetPending
  \/ CycleReload
  \/ CycleCatch
  \/ CycleRethrow

\* Every step of the cycle is a continuation on the JS thread, which runs it
\* once it is ready.
SpecCycle == InitCycle /\ [][NextCycle]_vars /\ WF_vars(NextCycle)

-----------------------------------------------------------------------------
(* C11 *)

fired(u, hook) == \E i \in DOMAIN u.hooks : u.hooks[i] = hook

\* The cycle is in, or past, the catch block of update().
FailurePcs == {"catch", "reportError", "failed"}

\* The patch path has just failed.
PatchPathFails == upd.pc = "patch" /\ upd'.patchThrew # NoThrow

\* A failure of the patch path is caught: no onError, the same offer, and the
\* next thing the cycle does is the full download.
PatchFailureCaught ==
  /\ PatchPathFails =>
       /\ upd'.pc = "full"
       /\ upd'.info = upd.info
       /\ ~fired(upd', "onError")
       /\ upd'.error = NoThrow
  /\ (upd.pc = "full" /\ upd.patchThrew # NoThrow /\ upd' # upd) => upd'.fullStarted

FailuresAfterDownload ==
  {"Network request failed", "Asset download failed", "Assets manifest hash mismatch",
   "Asset hash mismatch", "reload_error"}

\* C11 as stated: any failure inside the patch path is caught without firing
\* onError and is followed by a full download of the same release; and once
\* that full bundle's hash equals packageHash the cycle goes on to install
\* and never fails.
C11_PatchFailureCycleSucceeds ==
  [][/\ PatchFailureCaught
     /\ (upd'.patchThrew # NoThrow /\ upd'.fullVerified) => upd'.pc \notin FailurePcs]_vars

\* C11 amended: the same, except that after the verified full download the
\* cycle continues as any cycle does after its download: onDownloadComplete
\* is next, and it can still fail, but only in the asset synchronisation or
\* in the reload.
C11_PatchFailureRecovered ==
  [][/\ PatchFailureCaught
     /\ (upd.patchThrew # NoThrow /\ upd.pc = "full" /\ upd'.fullVerified) =>
          (upd'.pc = "assets" /\ upd'.error = NoThrow /\ ~fired(upd', "onError"))
     /\ (upd'.patchThrew # NoThrow /\ upd'.fullVerified /\ upd'.pc \in FailurePcs) =>
          upd'.error \in FailuresAfterDownload]_vars

\* The reconstructed bundle had the wrong hash, the full download verified,
\* and the cycle installed and completed without an error.
C11_Witness ==
  /\ upd.pc = "done"
  /\ upd.patchThrew = "Patch bundle hash mismatch"
  /\ upd.fullVerified
  /\ fired(upd, "onInstallComplete")
  /\ ~fired(upd, "onError")
  /\ upd.promise = "resolved"

-----------------------------------------------------------------------------
(* C12 *)

\* C12: update() never rejects: whatever fails, the promise it returned is
\* not rejected.
C12_UpdateNeverRejects == upd.promise # "rejected"

-----------------------------------------------------------------------------
(* C13 *)

count(seq, x) == Cardinality({i \in DOMAIN seq : seq[i] = x})

HashMismatches ==
  {"Bundle hash mismatch", "Assets manifest hash mismatch", "Asset hash mismatch"}

\* The failures that end the cycle: the three hash mismatches and the
\* failure of the host's reload.
FatalFailures == HashMismatches \cup {"reload_error"}

\* The state of a cycle that has thrown: nothing fired after the failure but
\* onError, once, and error telemetry was sent once.
StoppedAtFailure ==
  /\ upd.pc = "catch" =>
       (count(upd.hooks, "onError") = 0 /\ count(upd.reports, "report-error") = 0)
  /\ upd.pc \in {"reportError", "failed"} =>
       /\ count(upd.hooks, "onError") = 1
       /\ upd.hooks[Len(upd.hooks)] = "onError"
       /\ count(upd.reports, "report-error") = 1
  /\ upd.error \in HashMismatches => ~fired(upd, "onInstallStart")
  /\ upd.error # NoThrow => ~fired(upd, "onInstallComplete")
  /\ upd.error = NoThrow =>
       (~fired(upd, "onError") /\ count(upd.reports, "report-error") = 0)

\* C13: a fatal failure stops the cycle where it happens: no later phase
\* hook fires (no onInstallStart after a hash mismatch, no onInstallComplete
\* after a reload failure), onError fires exactly once, the error report is
\* sent exactly once, and once onError has fired the cycle fires no hook,
\* sends no report and writes nothing.
C13_FatalFailureStopsCycle ==
  [][/\ StoppedAtFailure'
     /\ upd.pc \in {"reportError", "failed"} =>
          /\ upd'.hooks = upd.hooks
          /\ upd'.reports = upd.reports
          /\ <<files, prefs, storage>>' = <<files, prefs, storage>>]_vars

\* A failure of the reload has ended a cycle that had got as far as the install.
C13_Witness ==
  /\ upd.pc = "failed"
  /\ upd.error = "reload_error"
  /\ upd.hooks = <<"onCheckStart", "onCheckComplete", "onDownloadStart",
                   "onDownloadComplete", "onInstallStart", "onError">>
  /\ upd.reports = <<"download-start", "report-error">>

-----------------------------------------------------------------------------
(* C14 *)

PhaseHooks ==
  <<"onCheckStart", "onCheckComplete", "onDownloadStart", "onDownloadComplete",
    "onInstallStart", "onInstallComplete">>

\* Position of a phase hook in the phase order; 0 for the other hooks.
phaseRank(hook) ==
  IF \E r \in DOMAIN PhaseHooks : PhaseHooks[r] = hook
    THEN CHOOSE r \in DOMAIN PhaseHooks : PhaseHooks[r] = hook
    ELSE 0

\* Every phase hook in the log comes after all the phase hooks before it in
\* the phase order, and fires once; every onDownloadProgress comes after
\* onDownloadStart and not after onDownloadComplete.
InPhaseOrder(hooks) ==
  \A i \in DOMAIN hooks :
    /\ phaseRank(hooks[i]) > 0 =>
         /\ \A r \in 1..(phaseRank(hooks[i]) - 1) :
              \E j \in 1..(i - 1) : hooks[j] = PhaseHooks[r]
         /\ \A j \in 1..(i - 1) : hooks[j] # hooks[i]
    /\ hooks[i] = "onDownloadProgress" =>
         /\ \E j \in 1..(i - 1) : hooks[j] = "onDownloadStart"
         /\ \A j \in 1..(i - 1) : hooks[j] # "onDownloadComplete"

\* The pending record of a store.
pendingRecord(p, st) ==
  <<p.pendingPath, p.pendingLabel, p.pendingAttemptAt, p.pendingFailCount, st.pendingUpdate>>

\* C14: the hooks of a cycle fire in phase order (check-start,
\* check-complete, download-start, download-complete, install-start,
\* install-complete), none before an earlier one; download-progress fires
\* only between download-start and download-complete; and the pending record
\* is written only after install-start and before install-complete.
C14_HooksInPhaseOrder ==
  [][/\ InPhaseOrder(upd'.hooks)
     /\ pendingRecord(prefs', storage') # pendingRecord(prefs, storage) =>
          /\ fired(upd, "onInstallStart")
          /\ ~fired(upd', "onInstallComplete")]_vars

\* A cycle has run through every phase, with progress reported during the
\* download, and has written the record to both stores.
C14_Witness ==
  /\ upd.hooks = <<"onCheckStart", "onCheckComplete", "onDownloadStart", "onDownloadProgress",
                   "onDownloadComplete", "onInstallStart", "onInstallComplete">>
  /\ prefs.pendingLabel = "v2"
  /\ storage.pendingUpdate # NoItem

-----------------------------------------------------------------------------
(* C15 *)

\* C15: telemetry never holds the cycle up: once onDownloadStart has fired
\* and the download-start report has been sent, the download phase starts
\* (downloadUpdate picks its path), whether or not the report is answered.
C15_DownloadStartsWhateverTelemetryDoes ==
  (upd.pc = "reportDl") ~> (upd.route # "none")

-----------------------------------------------------------------------------
(* C16 *)

\* The pre-boot store holds the record of label l as setPendingUpdate wrote
\* it: nothing has touched it since.
FreshPreBootRecord(p, l) ==
  /\ p.pendingLabel = l
  /\ p.pendingPath = bundlePath(l)
  /\ p.pendingAttemptAt = 0
  /\ p.pendingFailCount = 0

\* The post-boot store holds a record of label l and path, never failed.
FreshPostBootRecord(st, l, path) ==
  /\ st.pendingUpdate # NoItem
  /\ parse(st.pendingUpdate).label = l
  /\ parse(st.pendingUpdate).bundlePath = path
  /\ parse(st.pendingUpdate).failCount = 0

\* C16: the install step writes the record to the pre-boot store first and
\* to the post-boot store second.  When the second write follows the first
\* with the pre-boot record untouched in between, both stores hold a record
\* of the same label and bundle path, with fail count 0 and no attempt
\* recorded.  When the process dies between the two writes, the pre-boot
\* store holds the record and the post-boot store is as it was before the
\* install: the new record is not in it.
C16_InstallWritesBothStores ==
  [][/\ (proc' = "js" /\ upd.pc = "install" /\ upd'.pc = "setPending") =>
          (FreshPreBootRecord(prefs', upd.info.label) /\ storage' = storage)
     /\ (upd.pc = "setPending" /\ upd'.pc = "reload"
           /\ FreshPreBootRecord(prefs, upd.info.label)) =>
          /\ FreshPreBootRecord(prefs', upd.info.label)
          /\ FreshPostBootRecord(storage', prefs'.pendingLabel, prefs'.pendingPath)
     /\ (upd.pc = "setPending" /\ proc' = "dead"
           /\ FreshPreBootRecord(prefs, upd.info.label)) =>
          (FreshPreBootRecord(prefs', upd.info.label) /\ storage' = storage)]_vars

\* The process died between the two writes of a first install: the record is
\* in the pre-boot store only.
C16_Witness ==
  /\ proc = "dead"
  /\ prefs.pendingPath # NoPath
  /\ prefs.pendingAttemptAt = 0
  /\ prefs.pendingFailCount = 0
  /\ storage.pendingUpdate = NoItem
  /\ storage.activeLabel = Null

-----------------------------------------------------------------------------
(* Recovery after one install: a context that has downloaded and verified a
   release and is about to install it, on a device that either is fresh or
   has confirmed v1 before.  After this install the update check of every
   later context finds nothing.  The process is started again whenever it is
   dead, it always ends at some time, and in a context that lives long
   enough initStartupGuard and the notifyAppReady timer run. *)

InitHeal ==
  /\ platform \in {"ios", "android"}
  /\ now = TickMs
  /\ \E active \in {Null, "v1"}, label \in Labels :
       /\ label # active
       /\ files = [p \in BundlePaths |->
                     IF p = bundlePath(label) THEN releaseBytes(label)
                     ELSE IF active # Null /\ p = bundlePath(active) THEN releaseBytes(active)
                     ELSE Missing]
       /\ prefs = [EmptyPrefs EXCEPT !.activeLabel = active]
       /\ storage = [EmptyStorage EXCEPT !.activeLabel = active]
       /\ loaded = IF active = Null
                     THEN [kind |-> "baseline", label |-> Null, recorded |-> FALSE]
                     ELSE [kind |-> "active", label |-> active, recorded |-> FALSE]
       /\ runBytes = IF active = Null THEN BaselineBytes ELSE releaseBytes(active)
       /\ upd = installing(release(label, Undefined, Undefined))
  /\ proc = "js"
  /\ guardFail = 0
  /\ isg = IsgDone
  /\ nar = NarTimer
  /\ pendingLoads = 0
  /\ rolledBack = FALSE
  /\ committed = Null
  /\ bootSeen = NoBootSeen

NextHeal ==
  \/ Tick
  \/ Crash
  \/ BootNoPending
  \/ BootGuardBegin
  \/ BootGuardDecide
  \/ IsgRead
  \/ IsgWrite
  \/ NarFire
  \/ NarSetLabel
  \/ NarClear
  \/ NarMark
  \/ NarReport
  \/ UpdCheckNoOffer
  \/ UpdSetPendingUpdate
  \/ UpdSetPending
  \/ UpdReload

FairHeal ==
  /\ WF_vars(Tick)
  /\ WF_vars(Crash)
  /\ WF_vars(BootNoPending \/ BootGuardBegin)
  /\ SF_vars(BootGuardDecide)
  /\ SF_vars(IsgRead)
  /\ SF_vars(IsgWrite)
  /\ SF_vars(NarFire)
  /\ SF_vars(NarSetLabel)
  /\ SF_vars(NarClear)
  /\ SF_vars(NarMark)
  /\ SF_vars(NarReport)

SpecHeal == InitHeal /\ [][NextHeal]_vars /\ FairHeal

-----------------------------------------------------------------------------
(* C17 *)

\* The two stores disagree: a pending record in one and not in the other, or
\* different ActiveLabels.
StoresDisagree ==
  \/ (prefs.pendingPath # NoPath) # (storage.pendingUpdate # NoItem)
  \/ prefs.activeLabel # storage.activeLabel

\* Neither store holds a pending record and both name the same ActiveLabel.
StoresSettled ==
  /\ prefs.pendingPath = NoPath
  /\ storage.pendingUpdate = NoItem
  /\ prefs.activeLabel = storage.activeLabel

\* C17: from every state in which the two stores disagree, repeated process
\* starts with the guards running and no new install lead to a state where
\* neither store holds a pending record and both name the same ActiveLabel.
C17_StoresConverge == StoresDisagree ~> StoresSettled

-----------------------------------------------------------------------------
(* applyChunkPatch on its own: a base file at bundles/v1/index.bundle with
   any bytes, a patch document with any ops, and a path bundles/v2/
   index.bundle for the result, which may hold a file already.  The record
   of the call is [pc, patch, threw, before]: before is what the result path
   held when the call was made. *)

MaxText == 2
MaxOps == 2

\* Sequences over a set, up to a length.
seqsUpTo(S, n) == UNION {[1..k -> S] : k \in 0..n}

\* Bytes of the base file: an ASCII letter and the two bytes of U+00E9, in
\* any arrangement, well-formed or not.
BaseContents == seqsUpTo({"a", "C3", "A9"}, MaxText)

\* The data of a literal op: a JSON string.
LiteralData == seqsUpTo({EAcute}, 1)

\* Copies that lie in a base of MaxText units or reach one unit past its
\* end, literals, an empty op and an op of unknown kind.
ChunkOps ==
  UNION {{<<"c", offset, length>> :
            length \in 1..(MaxText + 1 - offset)} :
         offset \in 0..MaxText}
    \cup {<<"d", data>> : data \in LiteralData}
    \cup {<<>>, <<"x">>}

\* Bytes readFile(path, 'utf8') decodes without loss.
validUtf8(bytes) == utf8Encode(utf8Decode(bytes)) = bytes

oldBundlePath == bundlePath("v1")

newBundlePath == bundlePath("v2")

InitChunk ==
  /\ platform = "ios"
  /\ now = TickMs
  /\ \E base \in BaseContents, before \in {Missing, <<"a">>} :
       /\ files = [p \in BundlePaths |-> IF p = oldBundlePath THEN base ELSE before]
       /\ \E ops \in seqsUpTo(ChunkOps, MaxOps),
             algorithm \in {CHUNK_V1, "bsdiff"},
             baseHash \in {NoHash, EmptyHash, calculateSHA256(base),
                           calculateSHA256(<<"z">>)} :
            /\ algorithm = "bsdiff" => baseHash = calculateSHA256(base)
            /\ upd = [pc |-> "ready", threw |-> NoThrow, before |-> before,
                      patch |-> [algorithm |-> algorithm, baseHash |-> baseHash, ops |-> ops]]
  /\ prefs = EmptyPrefs
  /\ storage = EmptyStorage
  /\ proc = "js"
  /\ guardFail = 0
  /\ loaded = [kind |-> "baseline", label |-> Null, recorded |-> FALSE]
  /\ runBytes = BaselineBytes
  /\ isg = IsgDone
  /\ nar = NarDone
  /\ pendingLoads = 0
  /\ rolledBack = FALSE
  /\ committed = Null
  /\ bootSeen = NoBootSeen

\* applyChunkPatch(patchPath, oldBundlePath, newBundlePath).  On a base file
\* that is not well-formed UTF-8 the read either throws or substitutes
\* U+FFFD, depending on the file-system library.
ChunkApply ==
  /\ upd.pc = "ready"
  /\ LET r == applyChunkPatch(upd.patch, files, oldBundlePath, newBundlePath)
     IN \/ cycleStep([upd EXCEPT !.pc = IF r.threw = NoThrow THEN "applied" ELSE "threw",
                                !.threw = r.threw], r.files)
        \/ /\ r.threw = NoThrow
           /\ ~validUtf8(files[oldBundlePath])
           /\ cycleStep([upd EXCEPT !.pc = "threw", !.threw = "Invalid UTF-8 detected"], files)

NextChunk == ChunkApply

SpecChunk == InitChunk /\ [][NextChunk]_vars

-----------------------------------------------------------------------------
(* C18 *)

\* The patch is one applyChunkPatch accepts: the supported algorithm, and no
\* base hash or the digest of the base file.
PatchAccepted(patch, base) ==
  /\ patch.algorithm = CHUNK_V1
  /\ patch.baseHash \in {NoHash, calculateSHA256(base)}

\* Every op is a copy within the first len units of the base, or a literal.
CopiesAndLiterals(ops, len) ==
  \A i \in DOMAIN ops :
    /\ ops[i] # <<>>
    /\ ops[i][1] \in {"c", "d"}
    /\ ops[i][1] = "c" => ops[i][2] + ops[i][3] <= len

\* The concatenation, in op order, of base[offset, offset+length) for each
\* copy and of the literal's data (through toUnits) for each literal.
RECURSIVE concatenation(_, _, _)
concatenation(ops, base, literalBytes) ==
  IF ops = <<>> THEN <<>>
  ELSE LET op == Head(ops)
           piece == IF op[1] = "c" THEN SubSeq(base, op[2] + 1, op[2] + op[3])
                    ELSE IF literalBytes THEN utf8Encode(op[2]) ELSE op[2]
       IN piece \o concatenation(Tail(ops), base, literalBytes)

\* C18 as stated, for every content of the base file, offsets and lengths
\* counted in the file: the file written is the concatenation, in op order,
\* of B[offset, offset+length) for each copy and of data for each literal.
C18_PatchedFileAnyContent ==
  (/\ upd.pc # "ready"
   /\ PatchAccepted(upd.patch, files[oldBundlePath])
   /\ CopiesAndLiterals(upd.patch.ops, Len(files[oldBundlePath]))) =>
     /\ upd.pc = "applied"
     /\ files[newBundlePath] = concatenation(upd.patch.ops, files[oldBundlePath], TRUE)

\* C18 amended: for every base file that holds well-formed UTF-8 text B,
\* offsets and lengths counted in UTF-16 code units of B, the text written
\* (UTF-8 encoded) is that concatenation; it depends on B and the ops only,
\* not on what the result path held before.
C18_PatchedText ==
  (/\ upd.pc # "ready"
   /\ validUtf8(files[oldBundlePath])
   /\ PatchAccepted(upd.patch, files[oldBundlePath])
   /\ CopiesAndLiterals(upd.patch.ops, Len(utf8Decode(files[oldBundlePath])))) =>
     /\ upd.pc = "applied"
     /\ files[newBundlePath] =
          utf8Encode(concatenation(upd.patch.ops, utf8Decode(files[oldBundlePath]), FALSE))

\* A patch that puts a literal, a character of two bytes, before a copy of
\* the second character of the base has been applied over an existing file.
C18_Witness ==
  /\ upd.pc = "applied"
  /\ upd.before # Missing
  /\ files[oldBundlePath] = <<"a", "a">>
  /\ upd.patch.ops = << <<"d", <<EAcute>>>>, <<"c", 1, 1>> >>
  /\ files[newBundlePath] = <<"C3", "A9", "a">>

-----------------------------------------------------------------------------
(* C19 *)

\* The call failed and the result path holds what it held before the call.
RejectedUnwritten == upd.pc = "threw" /\ files[newBundlePath] = upd.before

\* C19 as stated: a patch whose algorithm is not "chunk-v1", and a patch
\* whose baseHash is present and differs from the digest of the base file,
\* is rejected before any output: the call fails and the result file is
\* neither written nor changed.
C19_RejectsAnyPresentBaseHash ==
  (/\ upd.pc # "ready"
   /\ \/ upd.patch.algorithm # "chunk-v1"
      \/ /\ upd.patch.baseHash # NoHash
         /\ upd.patch.baseHash # calculateSHA256(files[oldBundlePath])) => RejectedUnwritten

\* C19 amended: the same for a baseHash that is present and not the empty
\* string; an empty baseHash is treated as absent and the patch is applied.
C19_RejectsBeforeWriting ==
  (/\ upd.pc # "ready"
   /\ \/ upd.patch.algorithm # "chunk-v1"
      \/ /\ upd.patch.baseHash # NoHash
         /\ upd.patch.baseHash # EmptyHash
         /\ upd.patch.baseHash # calculateSHA256(files[oldBundlePath])) => RejectedUnwritten

\* A patch with ops and the digest of another base was rejected, and the
\* file already at the result path is intact.
C19_Witness ==
  /\ upd.pc = "threw"
  /\ upd.threw = "Patch base hash mismatch"
  /\ upd.patch.ops # <<>>
  /\ upd.before # Missing
  /\ files[newBundlePath] = upd.before

-----------------------------------------------------------------------------
(* C20 *)

\* One of the first n assets of the manifest holds what a bad transfer left:
\* its digest after the download differs from the declared hash.
AssetMismatch(fs, n) == \E i \in 1..n : fs[assetPath("v2", i)] = corruptAsset(i)

NoPendingRecord == pendingRecord(prefs, storage) = pendingRecord(EmptyPrefs, EmptyStorage)

\* C20: manifest atomicity.  Whatever the manifest, the asset directory and
\* the other downloads, a sync in which an asset's digest after its download
\* differs from the declared hash throws "Asset hash mismatch"; and the cycle
\* around it is on its failure path with that error, never resolves, never
\* reaches install-start and leaves both stores without a pending record.
C20_AssetMismatchFailsSyncAndCycle ==
  /\ (upd.pc = "assets" /\ truthyString(upd.info.assetsManifestUrl)) =>
       \A n \in 0..MaxAssets, dl \in [AssetPaths -> AssetDownloads] :
          LET r == syncAssets(n, files, upd.info.assetsHash, dl)
          IN AssetMismatch(r.files, n) => r.threw = "Asset hash mismatch"
  /\ AssetMismatch(files, upd.manifest) =>
       /\ upd.pc \in FailurePcs
       /\ upd.error = "Asset hash mismatch"
       /\ upd.promise # "resolved"
       /\ ~fired(upd, "onInstallStart")
       /\ NoPendingRecord

\* The first asset of the manifest holds the declared content and the second
\* came down corrupt: the cycle has failed and no store holds a record.
C20_Witness ==
  /\ upd.manifest = 2
  /\ files[assetPath("v2", 1)] = declaredAsset(1)
  /\ files[assetPath("v2", 2)] = corruptAsset(2)
  /\ upd.pc = "failed"
  /\ upd.promise = "rejected"
  /\ NoPendingRecord

-----------------------------------------------------------------------------
(* C21 *)

ManifestMismatch == "Assets manifest hash mismatch"

\* The asset sync of this step runs against a manifest of n entries whose
\* digest differs from the expected hash h.
SyncRejectsManifest(h) ==
  \A n \in 0..MaxAssets, dl \in [AssetPaths -> AssetDownloads] :
     manifestHash(n) # h =>
       LET r == syncAssets(n, files, h, dl)
       IN r.threw = ManifestMismatch /\ r.files = files

\* C21 as stated: whenever the offer gives an expected manifest hash, the
\* empty string included, and the digest of the raw manifest text differs
\* from it, syncAssets throws the manifest mismatch and no file is created,
\* downloaded or overwritten.
C21_ManifestMismatchAnyGivenHash ==
  [][(upd.pc = "assets" /\ truthyString(upd.info.assetsManifestUrl)
        /\ upd.info.assetsHash # NoHash) =>
       /\ SyncRejectsManifest(upd.info.assetsHash)
       /\ (upd'.manifest # 0 /\ manifestHash(upd'.manifest) # upd.info.assetsHash) =>
            (upd'.error = ManifestMismatch /\ files' = files)]_vars

\* C21 amended: the same for an expected hash that is not the empty string;
\* and a cycle whose sync threw the manifest mismatch has left every file as
\* it was and goes to its catch block.
C21_ManifestMismatchTouchesNoFile ==
  [][/\ (upd.pc = "assets" /\ truthyString(upd.info.assetsManifestUrl)
           /\ truthyHash(upd.info.assetsHash)) =>
          /\ SyncRejectsManifest(upd.info.assetsHash)
          /\ (upd'.manifest # 0 /\ manifestHash(upd'.manifest) # upd.info.assetsHash) =>
               (upd'.error = ManifestMismatch /\ files' = files)
     /\ (upd.pc = "assets" /\ upd'.error = ManifestMismatch) =>
          (files' = files /\ upd'.pc = "catch" /\ ~fired(upd', "onInstallStart"))]_vars

\* The manifest that came back has one entry and not the declared digest: the
\* cycle failed on it, and the asset that entry names, absent before, is
\* still absent, as is the other.
C21_Witness ==
  /\ upd.error = ManifestMismatch
  /\ upd.manifest = 1
  /\ upd.pc = "failed"
  /\ files[assetPath("v2", 1)] = Missing
  /\ files[assetPath("v2", 2)] = staleAsset(2)

-----------------------------------------------------------------------------
(* C22 *)

\* notifyAppReady of the running context goes from one await to the next.
NarMoves(from) ==
  /\ proc = "js"
  /\ proc' = "js"
  /\ nar.pc = from
  /\ nar'.pc \notin {from, "timer"}

\* The pre-boot store holds no pending record.
PreBootCleared(p) ==
  /\ p.pendingPath = NoPath
  /\ p.pendingLabel = Null
  /\ p.pendingAttemptAt = 0
  /\ p.pendingFailCount = 0

\* C22: notifyAppReady reads the post-boot pending record; with none it ends
\* and writes no store; with a record it sets the post-boot ActiveLabel to
\* the record's label, then removes the post-boot record, then marks the
\* pre-boot store verified for the label (ActiveLabel = label, pending keys
\* removed), each step changing that and nothing else in the stores; after
\* the telemetry report it writes nothing more.
C22_NotifyAppReadySteps ==
  [][/\ NarMoves("timer") =>
          /\ prefs' = prefs
          /\ storage' = storage
          /\ storage.pendingUpdate = NoItem => nar'.pc = "done"
          /\ storage.pendingUpdate # NoItem =>
               (nar'.pc = "setLabel" /\ nar'.label = storage.pendingUpdate[2].label)
     /\ NarMoves("setLabel") =>
          /\ nar' = [nar EXCEPT !.pc = "clear"]
          /\ storage' = [storage EXCEPT !.activeLabel = nar.label]
          /\ prefs' = prefs
     /\ NarMoves("clear") =>
          /\ nar' = [nar EXCEPT !.pc = "mark"]
          /\ storage' = [storage EXCEPT !.pendingUpdate = NoItem]
          /\ prefs' = prefs
     /\ NarMoves("mark") =>
          /\ nar' = [nar EXCEPT !.pc = "report"]
          /\ prefs'.activeLabel = nar.label
          /\ PreBootCleared(prefs')
          /\ storage' = storage
     /\ NarMoves("report") => (nar'.pc = "done" /\ prefs' = prefs /\ storage' = storage)
     /\ NarMoves("done") => FALSE]_vars

\* notifyAppReady, run in the pending bundle of v1 that the boot guard
\* loaded, has promoted v1 in both stores and removed both pending records.
C22_Witness ==
  /\ proc = "js"
  /\ loaded.kind = "pending"
  /\ loaded.label = "v1"
  /\ nar = [pc |-> "report", label |-> "v1"]
  /\ storage.activeLabel = "v1"
  /\ storage.pendingUpdate = NoItem
  /\ prefs.activeLabel = "v1"
  /\ PreBootCleared(prefs)

-----------------------------------------------------------------------------
(* C23 *)

\* initStartupGuard of the running context goes from one await to the next.
IsgMoves(from) ==
  /\ proc = "js"
  /\ proc' = "js"
  /\ isg.pc = from
  /\ isg'.pc \notin {from, "start"}

\* Age of the post-boot pending record, as initStartupGuard computes it.
recordAge == now - storage.pendingUpdate[2].appliedAt

\* What initStartupGuard does at its two steps: with no record, or one not
\* older than twice the confirmation window, it ends without a write; with an
\* older record it goes on to remove the post-boot record.
StartupGuardSteps ==
  /\ IsgMoves("start") =>
       /\ prefs' = prefs
       /\ storage' = storage
       /\ storage.pendingUpdate = NoItem => isg' = IsgDone
       /\ (storage.pendingUpdate # NoItem /\ recordAge <= 2 * STARTUP_CONFIRM_MS) =>
            isg' = IsgDone
       /\ (storage.pendingUpdate # NoItem /\ recordAge > 2 * STARTUP_CONFIRM_MS) =>
            isg' = [pc |-> "write", rec |-> NoItem]
  /\ IsgMoves("write") =>
       /\ isg' = IsgDone
       /\ storage' = [storage EXCEPT !.pendingUpdate = NoItem]

\* The record initStartupGuard removes is of the update the pre-boot store
\* holds as pending too.
RollsBackPendingOf(l) ==
  /\ IsgMoves("write")
  /\ storage.pendingUpdate # NoItem
  /\ storage.pendingUpdate[2].label = l
  /\ prefs.pendingLabel = l

\* C23 as stated: initStartupGuard does nothing without a record or with one
\* of age <= 2 * STARTUP_CONFIRM_MS; on an older record it rolls the update
\* back, after which neither store holds a pending record for that update.
C23_StartupGuardLeavesNoRecord ==
  [][/\ StartupGuardSteps
     /\ \A l \in Labels :
          RollsBackPendingOf(l) => (storage'.pendingUpdate = NoItem /\ prefs'.pendingLabel # l)]_vars

\* C23 amended: the rollback is one of the post-boot store only.  After it
\* the post-boot store holds no record, the pre-boot store is as it was (its
\* record for the update stays pending), and a notifyAppReady that reads the
\* post-boot store while it is empty confirms nothing.
C23_StartupGuardClearsPostBootRecord ==
  [][/\ StartupGuardSteps
     /\ IsgMoves("write") => (storage'.pendingUpdate = NoItem /\ prefs' = prefs)
     /\ (NarMoves("timer") /\ storage.pendingUpdate = NoItem) =>
          (nar' = NarDone /\ prefs' = prefs /\ storage' = storage)]_vars

\* The boot guard started the pending bundle of v1, whose record the
\* post-boot store held; initStartupGuard has removed that record for its
\* age before notifyAppReady or update() did anything, and the pre-boot
\* record of v1 is still pending.
C23_Witness ==
  /\ proc = "js"
  /\ loaded = [kind |-> "pending", label |-> "v1", recorded |-> TRUE]
  /\ isg = IsgDone
  /\ nar = NarTimer
  /\ upd = UpdStart
  /\ storage.pendingUpdate = NoItem
  /\ prefs.pendingLabel = "v1"
  /\ prefs.pendingAttemptAt > 0

-----------------------------------------------------------------------------
(* C24 *)

\* The bundle file of the pre-boot ActiveLabel is on disk.
ActiveBundleOnDisk ==
  /\ prefs.activeLabel # Null
  /\ files[bundlePath(prefs.activeLabel)] # Missing

\* C24: a process start that finds no pending record in the pre-boot store
\* loads the bundle of the pre-boot ActiveLabel when that file exists and the
\* embedded baseline otherwise, and leaves the store as it is.
C24_NoPendingLoadsActiveOrBaseline ==
  [][(BootBegins /\ PreBootCleared(prefs)) =>
       /\ proc' = "js"
       /\ prefs' = prefs
       /\ ActiveBundleOnDisk =>
            /\ loaded'.kind = "active"
            /\ loaded'.label = prefs.activeLabel
            /\ runBytes' = files[bundlePath(prefs.activeLabel)]
       /\ ~ActiveBundleOnDisk =>
            /\ loaded'.kind = "baseline"
            /\ runBytes' = BaselineBytes]_vars

\* A start without a pending record has loaded the baseline although v1 is
\* the ActiveLabel: the bundle file of v1 is gone.
C24_Witness ==
  /\ proc = "js"
  /\ loaded.kind = "baseline"
  /\ isg = IsgStart
  /\ nar = NarTimer
  /\ upd = UpdStart
  /\ PreBootCleared(prefs)
  /\ prefs.activeLabel = "v1"
  /\ files[bundlePath("v1")] = Missing

-----------------------------------------------------------------------------
(* C25 *)

\* The pending keys of the pre-boot store.
preBootRecord(p) == <<p.pendingPath, p.pendingLabel, p.pendingAttemptAt, p.pendingFailCount>>

\* The step is one of the boot guard: between process start and the hand-over
\* of a bundle no JS runs.
BootGuardStep == proc \in {"dead", "guard"}

\* The step is one of the two store writes of applyUpdateAtomically.
InstallsPreBoot ==
  /\ upd.pc = "install"
  /\ upd'.pc = "setPending"
  /\ prefs' = [prefs EXCEPT !.pendingPath = bundlePath(upd.info.label),
                            !.pendingLabel = upd.info.label,
                            !.pendingAttemptAt = 0, !.pendingFailCount = 0]

InstallsPostBoot ==
  /\ upd.pc = "setPending"
  /\ upd'.pc = "reload"
  /\ storage'.pendingUpdate # NoItem
  /\ storage'.pendingUpdate[2].label = upd.info.label
  /\ storage'.pendingUpdate[2].failCount = 0

\* The step is the confirmation's write to the pre-boot / post-boot store.
ConfirmsPreBoot == nar.pc = "mark" /\ nar'.pc = "report" /\ PreBootCleared(prefs')

ConfirmsPostBoot == nar.pc = "clear" /\ nar'.pc = "mark" /\ storage'.pendingUpdate = NoItem

\* The step is the removal by the post-boot layer of the guard.
StartupGuardRollsBack == isg.pc = "write" /\ isg'.pc = "done" /\ storage'.pendingUpdate = NoItem

\* C25: a pending record is written by the install step only.  In the
\* pre-boot store its attempt timestamp and failCount are changed by the boot
\* guard only, and it is removed by the boot guard (rollback) or by the
\* confirmation only; in the post-boot store a record is never changed in
\* place and is removed by the guard's post-boot layer (initStartupGuard) or
\* by the confirmation only.  No step of the update check, the downloads, the
\* asset sync, the telemetry or the reload changes a record in either store.
C25_PendingRecordFrame ==
  [][/\ preBootRecord(prefs') # preBootRecord(prefs) =>
          (BootGuardStep \/ InstallsPreBoot \/ ConfirmsPreBoot)
     /\ (preBootRecord(prefs') # preBootRecord(prefs) /\ ~PreBootCleared(prefs')) =>
          \/ InstallsPreBoot
          \/ /\ BootGuardStep
             /\ prefs'.pendingPath = prefs.pendingPath
             /\ prefs'.pendingLabel = prefs.pendingLabel
     /\ storage'.pendingUpdate # storage.pendingUpdate =>
          (InstallsPostBoot \/ ConfirmsPostBoot \/ StartupGuardRollsBack)
     /\ (proc = "js" /\ upd' # upd /\ upd.pc \notin {"install", "setPending"}) =>
          (preBootRecord(prefs') = preBootRecord(prefs)
             /\ storage'.pendingUpdate = storage.pendingUpdate)]_vars

\* An update cycle has come through its check and its download in a context
\* that runs a pending bundle: the record of that bundle is in both stores,
\* with the boot guard's attempt stamp in the pre-boot one.
C25_Witness ==
  /\ proc = "js"
  /\ loaded = [kind |-> "pending", label |-> "v1", recorded |-> TRUE]
  /\ upd.pc = "assets"
  /\ upd.info.label = "v2"
  /\ nar = NarTimer
  /\ prefs.pendingLabel = "v1"
  /\ prefs.pendingAttemptAt > 0
  /\ prefs.pendingFailCount = 0
  /\ storage.pendingUpdate # NoItem
  /\ storage.pendingUpdate[2].label = "v1"

-----------------------------------------------------------------------------
(* Two update() invocations in one JS context, both past their downloads and
   at applyUpdateAtomically.  Here upd is the pair of the invocations, each
   [pc, label, fromLabel, tornAt]; an invocation that was never started is
   "off", and tornAt is where it stood when the JS context was replaced. *)

Invocations == {1, 2}

InstallOff == [pc |-> "off", label |-> Null, fromLabel |-> Null, tornAt |-> Null]

atInstall(label) ==
  [pc |-> "install", label |-> label, fromLabel |-> Null, tornAt |-> Null]

\* The two stores as an earlier install of label e left them, or empty.
installedPrefs(e, active) ==
  IF e = Null THEN [EmptyPrefs EXCEPT !.activeLabel = active]
  ELSE setPendingUpdate([EmptyPrefs EXCEPT !.activeLabel = active], e, bundlePath(e))

installedStorage(e, active) ==
  IF e = Null THEN [EmptyStorage EXCEPT !.activeLabel = active]
  ELSE setPending([EmptyStorage EXCEPT !.activeLabel = active], e, bundlePath(e), active, TickMs)

InitRace ==
  /\ platform \in {"ios", "android"}
  /\ now = TickMs
  /\ files = [p \in BundlePaths |-> releaseBytes(labelOfPath(p))]
  /\ \E e \in Labels \cup {Null}, active \in {Null, "v1"} :
       /\ prefs = installedPrefs(e, active)
       /\ storage = installedStorage(e, active)
  /\ proc = "js"
  /\ guardFail = 0
  /\ loaded = [kind |-> "baseline", label |-> Null, recorded |-> FALSE]
  /\ runBytes = BaselineBytes
  /\ isg = IsgDone
  /\ nar = NarDone
  /\ \E l1 \in Labels :
       \/ upd = <<atInstall(l1), InstallOff>>
       \/ \E l2 \in Labels : upd = <<atInstall(l1), atInstall(l2)>>
  /\ pendingLoads = 0
  /\ rolledBack = FALSE
  /\ committed = Null
  /\ bootSeen = NoBootSeen

\* getCurrentLabel(); RNUpdateManager.setPendingUpdate(updateInfo.label, bundlePath)
RaceSetPendingUpdate ==
  \E i \in Invocations :
    /\ upd[i].pc = "install"
    /\ prefs' = setPendingUpdate(prefs, upd[i].label, bundlePath(upd[i].label))
    /\ upd' = [upd EXCEPT ![i].pc = "setPending", ![i].fromLabel = storage.activeLabel]
    /\ UNCHANGED <<platform, now, files, storage, proc, guardFail, loaded, runBytes,
                   isg, nar, pendingLoads, rolledBack, committed, bootSeen>>

\* this.setPending({label, bundlePath, releaseId, fromLabel})
RaceSetPending ==
  \E i \in Invocations :
    /\ upd[i].pc = "setPending"
    /\ storage' = setPending(storage, upd[i].label, bundlePath(upd[i].label),
                             upd[i].fromLabel, now)
    /\ upd' = [upd EXCEPT ![i].pc = "reload"]
    /\ UNCHANGED <<platform, now, files, prefs, proc, guardFail, loaded, runBytes,
                   isg, nar, pendingLoads, rolledBack, committed, bootSeen>>

\* RNUpdateManager.reloadBundle(bundlePath) is rejected, or it resolves and
\* the host goes on to replace the JS context.
RaceReload ==
  \E i \in Invocations :
    /\ upd[i].pc = "reload"
    /\ \E outcome \in {"failed", "done"} : upd' = [upd EXCEPT ![i].pc = outcome]
    /\ UNCHANGED <<platform, now, files, prefs, storage, proc, guardFail, loaded, runBytes,
                   isg, nar, pendingLoads, rolledBack, committed, bootSeen>>

\* The reload an invocation asked for replaces the JS context: what the other
\* invocation had not yet done is never done.
RaceTeardown ==
  /\ \E i \in Invocations : upd[i].pc = "done"
  /\ \E i \in Invocations : upd[i].pc \in {"install", "setPending", "reload"}
  /\ upd' = [i \in Invocations |->
               IF upd[i].pc \in {"install", "setPending", "reload"}
                 THEN [upd[i] EXCEPT !.pc = "torn", !.tornAt = upd[i].pc]
                 ELSE upd[i]]
  /\ UNCHANGED <<platform, now, files, prefs, storage, proc, guardFail, loaded, runBytes,
                 isg, nar, pendingLoads, rolledBack, committed, bootSeen>>

NextRace ==
  \/ Tick
  \/ RaceSetPendingUpdate
  \/ RaceSetPending
  \/ RaceReload
  \/ RaceTeardown

SpecRace == InitRace /\ [][NextRace]_vars

-----------------------------------------------------------------------------
(* C26 *)

\* The invocation has made both store writes of its install.
Installed(i) == upd[i].pc \in {"reload", "failed", "done"}

\* No invocation is between its two store writes, or was when the context
\* was replaced.
NoInstallHalfDone ==
  \A i \in Invocations :
     /\ upd[i].pc # "setPending"
     /\ upd[i].tornAt # "setPending"

\* The pre-boot store holds the record of one label and the post-boot store
\* the record of another.
StoresSplit ==
  /\ prefs.pendingLabel # Null
  /\ storage.pendingUpdate # NoItem
  /\ storage.pendingUpdate[2].label # prefs.pendingLabel

\* C26: with a single invocation, the install leaves the record of its label
\* in both stores; the two stores hold records of different labels, with no
\* install half-done, only when two invocations for different labels were in
\* flight.
C26_SplitNeedsTwoInvocations ==
  /\ (upd[2].pc = "off" /\ Installed(1)) =>
       /\ prefs.pendingLabel = upd[1].label
       /\ storage.pendingUpdate # NoItem
       /\ storage.pendingUpdate[2].label = upd[1].label
  /\ (StoresSplit /\ NoInstallHalfDone) =>
       /\ upd[2].pc # "off"
       /\ upd[1].label # upd[2].label

\* Both invocations have made both writes: the pre-boot store ends with the
\* record of v2, the post-boot store with the record of v1.
C26_Witness ==
  /\ Installed(1)
  /\ Installed(2)
  /\ upd[1].label = "v1"
  /\ upd[2].label = "v2"
  /\ prefs.pendingLabel = "v2"
  /\ prefs.pendingPath = bundlePath("v2")
  /\ storage.pendingUpdate # NoItem
  /\ storage.pendingUpdate[2].label = "v1"

-----------------------------------------------------------------------------
(* applyChunkPatch on op sequences that mix well-formed ops with what a JSON
   document can hold in their place. *)

\* Copies and a literal; a null, an empty op, an op of unknown kind; a copy
\* without its length, a literal without its data, and a literal whose data
\* is a number.
MixedOps ==
  {<<"c", 0, 1>>, <<"c", 1, 1>>, <<"d", <<EAcute>>>>,
   NullOp, <<>>, <<"x">>,
   <<"c", 0>>, <<"d">>, <<"d", jsonNumber(5)>>}

InitOps ==
  /\ platform = "ios"
  /\ now = TickMs
  /\ \E base \in BaseContents :
       /\ files = [p \in BundlePaths |-> IF p = oldBundlePath THEN base ELSE Missing]
       /\ \E ops \in seqsUpTo(MixedOps, MaxOps + 1),
             baseHash \in {NoHash, calculateSHA256(base)} :
            upd = [pc |-> "ready", threw |-> NoThrow, before |-> Missing,
                   patch |-> [algorithm |-> CHUNK_V1, baseHash |-> baseHash, ops |-> ops]]
  /\ prefs = EmptyPrefs
  /\ storage = EmptyStorage
  /\ proc = "js"
  /\ guardFail = 0
  /\ loaded = [kind |-> "baseline", label |-> Null, recorded |-> FALSE]
  /\ runBytes = BaselineBytes
  /\ isg = IsgDone
  /\ nar = NarDone
  /\ pendingLoads = 0
  /\ rolledBack = FALSE
  /\ committed = Null
  /\ bootSeen = NoBootSeen

SpecOps == InitOps /\ [][NextChunk]_vars

-----------------------------------------------------------------------------
(* C27 *)

\* A copy with its offset and length, a literal with text as its data.
wellFormedCopy(op) == op # <<>> /\ op[1] = "c" /\ Len(op) = 3

wellFormedLiteral(op) ==
  /\ op # <<>>
  /\ op[1] = "d"
  /\ Len(op) = 2
  /\ ~(Len(op[2]) = 2 /\ op[2][1] = "num")

wellFormed(op) == wellFormedCopy(op) \/ wellFormedLiteral(op)

\* The text of a copy within the base, or of a literal.
outputOf(op, text) ==
  IF wellFormedCopy(op)
    THEN SubSeq(text, op[2] + 1, IF op[2] + op[3] > Len(text) THEN Len(text) ELSE op[2] + op[3])
    ELSE op[2]

\* A literal whose data is a number: join('') writes the number.
NumberLiteral(op) == op # <<>> /\ op[1] = "d" /\ Len(op) = 2 /\ ~wellFormedLiteral(op)

\* The outputs of the well-formed ops, in their order.  Null ops, empty ops,
\* ops of unknown kind, a copy without its length and a literal without its
\* data add nothing; a literal whose data is the number 5 adds its digit.
RECURSIVE joinedOutputs(_, _)
joinedOutputs(ops, text) ==
  IF ops = <<>> THEN <<>>
  ELSE (IF wellFormed(Head(ops)) THEN outputOf(Head(ops), text)
        ELSE IF NumberLiteral(Head(ops)) /\ Head(ops)[2][2] = 5 THEN <<"5">>
        ELSE <<>>)
         \o joinedOutputs(Tail(ops), text)

-----------------------------------------------------------------------------
(* C28 *)

\* C28: the failCount initStartupGuard computes is at least 1, so it never
\* writes an updated record: a step of initStartupGuard leaves the post-boot
\* pending record as it is or removes it, and leaves the pre-boot store
\* (pending path, label, attempt timestamp, failCount, ActiveLabel) as it is.
C28_StartupGuardNeverPersists ==
  [][/\ storage.pendingUpdate # NoItem => storage.pendingUpdate[2].failCount + 1 >= 1
     /\ isg'.rec = NoItem
     /\ (IsgMoves("start") \/ IsgMoves("write")) =>
          /\ prefs' = prefs
          /\ storage'.activeLabel = storage.activeLabel
          /\ storage'.pendingUpdate \in {storage.pendingUpdate, NoItem}]_vars

\* The reloaded context runs the bundle it has just installed; its
\* initStartupGuard has removed the post-boot record of that install, and the
\* pre-boot record is still pending, not yet attempted.
C28_Witness ==
  /\ proc = "js"
  /\ loaded = [kind |-> "reload", label |-> "v1", recorded |-> TRUE]
  /\ isg = IsgDone
  /\ nar = NarTimer
  /\ upd = UpdStart
  /\ storage.pendingUpdate = NoItem
  /\ prefs.pendingLabel = "v1"
  /\ prefs.pendingPath = bundlePath("v1")
  /\ prefs.pendingAttemptAt = 0

-----------------------------------------------------------------------------
(* C29 *)

\* The guard's evaluation ends in a rollback.
GuardRollsBackNow == GuardDecides /\ prefs'.pendingPath = NoPath

\* C29: no step of the boot guard writes the post-boot store.  A rollback
\* removes the pre-boot record and starts the active bundle or the baseline
\* with the post-boot store as it was, so the record an install wrote there
\* is what getPending returns in the new process; and from then on the
\* record leaves the post-boot store only when initStartupGuard or
\* notifyAppReady removes it (or a new install writes its own in its place).
C29_RollbackLeavesPostBootRecord ==
  [][/\ BootGuardStep => storage' = storage
     /\ GuardRollsBackNow =>
          /\ PreBootCleared(prefs')
          /\ prefs'.activeLabel = prefs.activeLabel
          /\ loaded'.kind \in RollbackLoad
          /\ storage'.pendingUpdate = storage.pendingUpdate
     /\ (rolledBack /\ storage'.pendingUpdate # storage.pendingUpdate) =>
          (StartupGuardRollsBack \/ ConfirmsPostBoot \/ InstallsPostBoot)]_vars

\* The guard has rolled the crashing v2 back and started the process on
\* what was active before; the post-boot store still holds the record of v2.
C29_Witness ==
  /\ proc = "js"
  /\ rolledBack
  /\ loaded.kind \in RollbackLoad
  /\ isg = IsgStart
  /\ nar = NarTimer
  /\ upd = UpdStart
  /\ PreBootCleared(prefs)
  /\ storage.pendingUpdate # NoItem
  /\ storage.pendingUpdate[2].label = "v2"
  /\ storage.pendingUpdate[2].bundlePath = bundlePath("v2")

-----------------------------------------------------------------------------
(* C30 *)

\* The record of label l as an install at time t writes it: not attempted,
\* no failure counted.
FreshInBothStores(l) ==
  /\ prefs.pendingPath = bundlePath(l)
  /\ prefs.pendingLabel = l
  /\ prefs.pendingAttemptAt = 0
  /\ prefs.pendingFailCount = 0
  /\ storage.pendingUpdate # NoItem
  /\ storage.pendingUpdate[2].label = l
  /\ storage.pendingUpdate[2].failCount = 0
  /\ storage.pendingUpdate[2].verified = FALSE

\* reloadBundle takes effect: the JS context is replaced.
ReloadTakesEffect == proc = "js" /\ upd.pc = "reload" /\ proc' = "js" /\ upd' = UpdStart

\* C30: an install that finds a pending record in a store writes its own in
\* its place, with attempt timestamp 0 and failCount 0 in the pre-boot store
\* and failCount 0 and the time of the install in the post-boot store, the
\* ActiveLabels left as they are.  And a reload that takes effect before the
\* notifyAppReady timer has fired starts the context over: the timer and
\* initStartupGuard start again, update() is at its check again, nothing is
\* confirmed and the stores are as the install left them; on iOS the new
\* context runs the bundle just installed.
C30_ReinstallStartsOver ==
  [][/\ (proc = "js" /\ upd.pc = "install" /\ upd'.pc = "setPending"
           /\ prefs.pendingPath # NoPath) =>
          prefs' = [prefs EXCEPT !.pendingPath = bundlePath(upd.info.label),
                                 !.pendingLabel = upd.info.label,
                                 !.pendingAttemptAt = 0, !.pendingFailCount = 0]
     /\ (proc = "js" /\ upd.pc = "setPending" /\ upd'.pc = "reload"
           /\ storage.pendingUpdate # NoItem) =>
          /\ storage'.activeLabel = storage.activeLabel
          /\ storage'.pendingUpdate[2] =
               [label |-> upd.info.label, bundlePath |-> bundlePath(upd.info.label),
                fromLabel |-> upd.fromLabel, appliedAt |-> now,
                verified |-> FALSE, failCount |-> 0]
     /\ (ReloadTakesEffect /\ nar.pc = "timer") =>
          /\ nar' = NarTimer
          /\ isg' = IsgStart
          /\ prefs' = prefs
          /\ storage' = storage
          /\ rolledBack' = rolledBack
          /\ platform = "ios" => (loaded'.kind = "reload" /\ loaded'.label = upd.info.label)]_vars

\* A context that a reload started on the bundle of v1, installed and not
\* confirmed, has installed v1 once more before its timer fired and is about
\* to reload again: the record of v1 is fresh in both stores and no store
\* has an ActiveLabel.
C30_Witness ==
  /\ proc = "js"
  /\ loaded = [kind |-> "reload", label |-> "v1", recorded |-> TRUE]
  /\ nar = NarTimer
  /\ upd.pc = "reload"
  /\ upd.info.label = "v1"
  /\ upd.fromLabel = Null
  /\ FreshInBothStores("v1")
  /\ prefs.activeLabel = Null
  /\ storage.activeLabel = Null
  /\ ~rolledBack

=============================================================================
